---------------------------- MODULE Spec2Model ----------------------------
(***************************************************************************)
(* Robo-Pat-Create: the Java Object Serialization codec of robopat-ai.     *)
(*                                                                         *)
(*   decoders  bwn_parser.py     (JavaSerializationParser, "v1")           *)
(*             bwn_parser_v2.py  (JavaSerializationParser, "v2")           *)
(*   encoder   src/bwn_compiler_v2.py (JavaObjectOutputStream,             *)
(*             BWNScriptBuilder)                                           *)
(*                                                                         *)
(* A decoder session is a state machine over a byte buffer: every method   *)
(* of the parser is an action (or one action per resumption point of a     *)
(* method that calls read_content / read_class_desc recursively), the      *)
(* Python call stack is the variable stack.  The buffer is either the      *)
(* output of an encoder session, or is built while it is read: a reading   *)
(* action standing at the end of the bytes fixed so far picks the next     *)
(* bytes from a small set (or picks none: the buffer ends there).  Bytes   *)
(* are numbers 0..255, strings are sequences of code points, 8-byte        *)
(* values are kept as their 8 bytes.                                       *)
(***************************************************************************)
EXTENDS Integers, Sequences, FiniteSets, TLC

(***************************************************************************)
(* Protocol constants                                                      *)
(***************************************************************************)
TC_NULL == 112
TC_REFERENCE == 113
TC_CLASSDESC == 114
TC_OBJECT == 115
TC_STRING == 116
TC_ARRAY == 117
TC_CLASS == 118
TC_BLOCKDATA == 119
TC_ENDBLOCKDATA == 120
TC_RESET == 121
TC_BLOCKDATALONG == 122
TC_EXCEPTION == 123
TC_LONGSTRING == 124
TC_PROXYCLASSDESC == 125
TC_ENUM == 126

SC_WRITE_METHOD == 1
SC_SERIALIZABLE == 2

BASE_WIRE_HANDLE == 8257536

STREAM_MAGIC_HI == 172
STREAM_MAGIC_LO == 237
STREAM_VERSION == 5

(***************************************************************************)
(* Bounds of the model                                                     *)
(***************************************************************************)
\* how many pieces are added to a buffer under construction
MaxFeeds == 4
\* the unusual pieces (bad tags, arrays, enums, proxies, long forms) are
\* offered only while fewer than MaxRare pieces are in the buffer
MaxRare == 1
\* REFERENCE handles offered: BASE_WIRE_HANDLE .. BASE_WIRE_HANDLE + MaxRef
MaxRef == 1
\* entries of a dict and elements of a list given to the encoder
MaxItems == 2
\* the tabs of a script and the commands of a tab
MaxTabs == 2
MaxCommands == 2

(***************************************************************************)
(* Bytes and big-endian numbers (struct.pack / struct.unpack)              *)
(***************************************************************************)
Byte == 0..255

U16(hi, lo) == hi * 256 + lo

\* struct.unpack('>h')
S16(hi, lo) == IF hi >= 128 THEN (hi - 256) * 256 + lo ELSE hi * 256 + lo

\* struct.unpack('>i')
S32(b) ==
  (IF b[1] >= 128 THEN b[1] - 256 ELSE b[1]) * 16777216
     + b[2] * 65536 + b[3] * 256 + b[4]

\* struct.pack('>H', v), 0 <= v < 65536
PackU16(v) == << v \div 256, v % 256 >>

\* struct.pack('>i', v), 0 <= v < 2^31
PackI32(v) ==
  << v \div 16777216, (v \div 65536) % 256, (v \div 256) % 256, v % 256 >>

\* the bytes p+1 .. p+n of d (d is 1-based, offsets are 0-based)
Take(d, p, n) == SubSeq(d, p + 1, p + n)

\* an 8-byte big-endian length as a number, or -1 when it is negative or does
\* not fit the buffers of the model (either way fewer bytes are left)
LongLen(b) ==
  IF b[1] = 0 /\ b[2] = 0 /\ b[3] = 0 /\ b[4] = 0 /\ b[5] < 128
  THEN S32(SubSeq(b, 5, 8)) ELSE -1

(***************************************************************************)
(* bytes.decode('utf-8') with the fallback bytes.decode('latin-1'), and    *)
(* str.encode('utf-8').  A str is the sequence of its code points.  The    *)
(* bytes and the index are taken as values (x \in {b}, j \in {i}).         *)
(***************************************************************************)
IsCont(x) == x >= 128 /\ x <= 191

\* length of the well-formed UTF-8 sequence starting at b[i], 0 when ill-formed
Utf8SeqLen(b, i) ==
  LET x == b[i]
      n == Len(b)
  IN  IF x < 128 THEN 1
      ELSE IF x >= 194 /\ x <= 223
        THEN IF i + 1 <= n /\ IsCont(b[i + 1]) THEN 2 ELSE 0
      ELSE IF x >= 224 /\ x <= 239
        THEN IF i + 2 <= n /\ IsCont(b[i + 1]) /\ IsCont(b[i + 2])
                /\ (x = 224 => b[i + 1] >= 160)
                /\ (x = 237 => b[i + 1] <= 159)
             THEN 3 ELSE 0
      ELSE IF x >= 240 /\ x <= 244
        THEN IF i + 3 <= n /\ IsCont(b[i + 1]) /\ IsCont(b[i + 2])
                /\ IsCont(b[i + 3])
                /\ (x = 240 => b[i + 1] >= 144)
                /\ (x = 244 => b[i + 1] <= 143)
             THEN 4 ELSE 0
      ELSE 0

Utf8CodePoint(b, i, n) ==
  IF n = 1 THEN b[i]
  ELSE IF n = 2 THEN (b[i] - 192) * 64 + (b[i + 1] - 128)
  ELSE IF n = 3 THEN (b[i] - 224) * 4096 + (b[i + 1] - 128) * 64 + (b[i + 2] - 128)
  ELSE (b[i] - 240) * 262144 + (b[i + 1] - 128) * 4096
          + (b[i + 2] - 128) * 64 + (b[i + 3] - 128)

RECURSIVE Utf8Valid(_, _)
Utf8Valid(b, i) ==
  \A j \in {i} :
    IF j > Len(b) THEN TRUE
    ELSE \A n \in {Utf8SeqLen(b, j)} : IF n = 0 THEN FALSE ELSE Utf8Valid(b, j + n)

RECURSIVE Utf8Points(_, _)
Utf8Points(b, i) ==
  CHOOSE r \in { IF j > Len(b) THEN << >>
                 ELSE LET n == Utf8SeqLen(b, j)
                      IN  << Utf8CodePoint(b, j, n) >> \o Utf8Points(b, j + n) : j \in {i} } : TRUE

\* try: data.decode('utf-8')  except: data.decode('latin-1')
DecodeStr(b) ==
  CHOOSE r \in { IF Utf8Valid(x, 1) THEN Utf8Points(x, 1) ELSE x : x \in {b} } : TRUE

EncodePoint(c) ==
  IF c < 128 THEN << c >>
  ELSE IF c < 2048 THEN << 192 + (c \div 64), 128 + (c % 64) >>
  ELSE IF c < 65536
    THEN << 224 + (c \div 4096), 128 + ((c \div 64) % 64), 128 + (c % 64) >>
  ELSE << 240 + (c \div 262144), 128 + ((c \div 4096) % 64),
          128 + ((c \div 64) % 64), 128 + (c % 64) >>

\* the encodings of the code points one after the other: those of the
\* first half of the text, then those of the second
RECURSIVE EncodeStr(_)
EncodeStr(s) ==
  IF s = << >> THEN << >>
  ELSE IF Len(s) = 1 THEN EncodePoint(s[1])
  ELSE LET half == Len(s) \div 2
       IN  EncodeStr(SubSeq(s, 1, half)) \o EncodeStr(SubSeq(s, half + 1, Len(s)))

(***************************************************************************)
(* Python values.  A value is a record with the field k; JavaClassDesc,    *)
(* JavaObject, JavaArray and JavaEnum instances are mutable and shared:    *)
(* they live in heap and a value of kind "obj" points to one.              *)
(***************************************************************************)
PyNone == [k |-> "none"]
IsNone(v) == v.k = "none"
PyStr(s) == [k |-> "str", s |-> s]
PyBytes(b) == [k |-> "bytes", b |-> b]
PyBlockData(b) == [k |-> "BlockData", b |-> b]
PyInt(n) == [k |-> "int", n |-> n]
PyLong(b) == [k |-> "int64", b |-> b]
PyFloat(b) == [k |-> "float", b |-> b]
PyBool(t) == [k |-> "bool", t |-> t]
PyObj(i) == [k |-> "obj", id |-> i]
JavaReference(h, r) == [k |-> "JavaReference", handle |-> h, resolved |-> r]

JavaField(tc, nm, cn) == [type_code |-> tc, name |-> nm, class_name |-> cn]

JavaClassDesc(nm, uid, fl, h) ==
  [t |-> "JavaClassDesc", name |-> nm, serial_version_uid |-> uid, flags |-> fl,
   fields |-> << >>, super_class |-> PyNone, annotations |-> << >>, handle |-> h]

JavaObject(cd, h) ==
  [t |-> "JavaObject", class_desc |-> cd, field_values |-> << >>,
   annotations |-> << >>, handle |-> h]

JavaArray(cd, h) ==
  [t |-> "JavaArray", class_desc |-> cd, elements |-> << >>, handle |-> h]

JavaEnum(cd, nm, h) ==
  [t |-> "JavaEnum", class_desc |-> cd, constant_name |-> nm, handle |-> h]

\* a test that takes every class to have written its own data
writes_always(cd) == TRUE

\* a test that takes no class to have written its own data
writes_never(cd) == FALSE

\* (self.flags & SC.WRITE_METHOD) != 0
has_write_method(cd) == (cd.flags % 2) = SC_WRITE_METHOD

\* a dict with insertion order: d[key] = value
DictSet(d, key, value) ==
  IF \E i \in 1..Len(d) : d[i].name = key
  THEN [i \in 1..Len(d) |-> IF d[i].name = key
                             THEN [name |-> key, value |-> value] ELSE d[i]]
  ELSE Append(d, [name |-> key, value |-> value])

EmptyMap == [h \in {} |-> PyNone]
Put(f, key, v) == [h \in DOMAIN f \cup {key} |-> IF h = key THEN v ELSE f[h]]

VARIABLES
  gen,          \* the reader of the session: parser "v1" | "v2", or "dump"
  data,         \* the bytes of the buffer fixed so far
  closed,       \* TRUE: data is the whole buffer (it came from an encoder)
  fed,          \* how many times data was extended; MaxFeeds once a read of
                \* the dumper found the buffer ended
  pos,          \* self.stream.tell()
  handles,      \* self.handles
  next_handle,  \* self.next_handle
  heap,         \* the JavaClassDesc / JavaObject / JavaArray / JavaEnum made,
                \* the ClassInfo of the dumper
  ctl,          \* the method about to run (op) and its locals
  stack,        \* the suspended callers, innermost last
  log,          \* history: handle allocations, resets, tags, field reads
  graph,        \* what the session's encoder is given: [root, nodes]
  enc,          \* the encoder session that made data
  reenc,        \* the encoder session given what the decoder returned
  other         \* the instances that run beside the session's, if any

vars ==
  << gen, data, closed, fed, pos, handles, next_handle, heap, ctl, stack, log,
     graph, enc, reenc, other >>

(***************************************************************************)
(* The byte cursor: read_bytes and the readers built on it.  A reader      *)
(* gives [ok, v, p]: whether the bytes were there, the value, the offset   *)
(* after the read.  stream.read(n) that comes back short has consumed what *)
(* was left (and all of it for n < 0) before read_bytes raises ValueError. *)
(* The offset and the count are taken as values (a \in {<<p, n>>}), as the *)
(* arguments of a call are: each is worked out once.                       *)
(***************************************************************************)
read_bytes(d, p, n) ==
  CHOOSE r \in { IF a[2] >= 0 /\ a[1] + a[2] <= Len(d)
                 THEN [ok |-> TRUE, v |-> Take(d, a[1], a[2]), p |-> a[1] + a[2]]
                 ELSE [ok |-> FALSE, v |-> << >>, p |-> Len(d)] : a \in {<<p, n>>} } : TRUE

read_byte(d, p) ==
  LET r == read_bytes(d, p, 1)
  IN  [ok |-> r.ok, v |-> IF r.ok THEN r.v[1] ELSE 0, p |-> r.p]

read_ushort(d, p) ==
  LET r == read_bytes(d, p, 2)
  IN  [ok |-> r.ok, v |-> IF r.ok THEN U16(r.v[1], r.v[2]) ELSE 0, p |-> r.p]

read_short(d, p) ==
  LET r == read_bytes(d, p, 2)
  IN  [ok |-> r.ok, v |-> IF r.ok THEN S16(r.v[1], r.v[2]) ELSE 0, p |-> r.p]

read_int(d, p) ==
  LET r == read_bytes(d, p, 4)
  IN  [ok |-> r.ok, v |-> IF r.ok THEN S32(r.v) ELSE 0, p |-> r.p]

\* the 8 bytes stand for the number
read_long(d, p) == read_bytes(d, p, 8)

read_utf(d, p) ==
  LET l == read_ushort(d, p)
      b == read_bytes(d, l.p, l.v)
  IN  IF ~l.ok THEN [ok |-> FALSE, v |-> << >>, p |-> l.p]
      ELSE [ok |-> b.ok, v |-> DecodeStr(b.v), p |-> b.p]

read_long_utf(d, p) ==
  LET l == read_long(d, p)
      b == read_bytes(d, l.p, LongLen(l.v))
  IN  IF ~l.ok THEN [ok |-> FALSE, v |-> << >>, p |-> l.p]
      ELSE [ok |-> b.ok, v |-> DecodeStr(b.v), p |-> b.p]

(***************************************************************************)
(* The bytes a buffer is made of.  A buffer that does not come from an     *)
(* encoder is fixed piece by piece, each piece when the decoder reaches    *)
(* the end of the pieces before it; the sets below are the pieces offered  *)
(* where the decoder stands.                                               *)
(***************************************************************************)
Utf(b) == PackU16(Len(b)) \o b
Ref(n) == <<TC_REFERENCE>> \o PackI32(BASE_WIRE_HANDLE + n)
Str(b) == <<TC_STRING>> \o Utf(b)

RECURSIVE Cat(_)
Cat(qs) == IF qs = << >> THEN << >> ELSE Head(qs) \o Cat(Tail(qs))

Header == <<STREAM_MAGIC_HI, STREAM_MAGIC_LO, 0, STREAM_VERSION>>
UID1 == <<0, 0, 0, 0, 0, 0, 0, 1>>

\* a class descriptor up to the end of its field table
CD(nm, fl, fields) ==
  <<TC_CLASSDESC>> \o Utf(nm) \o UID1 \o <<fl>> \o PackU16(Len(fields)) \o Cat(fields)

Plain == SC_SERIALIZABLE
Custom == SC_SERIALIZABLE + SC_WRITE_METHOD

\* rows of a field table: int x, boolean b, Object o
Ix == <<73>> \o Utf(<<120>>)
Zb == <<90>> \o Utf(<<98>>)
Lo == <<76>> \o Utf(<<111>>) \o Str(<<76, 84, 59>>)
\* short s, char c, long j, byte y, double d, float f
Sx == <<83>> \o Utf(<<115>>)
Cc == <<67>> \o Utf(<<99>>)
Jl == <<74>> \o Utf(<<106>>)
By == <<66>> \o Utf(<<121>>)
Dd == <<68>> \o Utf(<<100>>)
Ff == <<70>> \o Utf(<<102>>)

NameA == <<65>>
NameB == <<66>>
NameC == <<67>>

HeaderChunks ==
  { Header,
    <<STREAM_MAGIC_HI, STREAM_MAGIC_LO, 0, 4>>,
    <<STREAM_MAGIC_LO, STREAM_MAGIC_HI, 0, STREAM_VERSION>>,
    <<STREAM_MAGIC_HI, STREAM_MAGIC_LO>> }

\* the pieces that are offered only among the first MaxRare of a buffer
Rare(S) == IF fed < MaxRare THEN S ELSE {}

ContentChunks ==
  { <<TC_NULL>>, <<TC_ENDBLOCKDATA>>, <<TC_OBJECT>>, <<TC_RESET>>, Str(<<97>>) }
    \cup { Ref(n) : n \in 0..MaxRef }
    \cup Rare({ <<TC_CLASS>>, <<TC_ARRAY>>, <<TC_ENUM>>, <<TC_EXCEPTION>>, <<127>>,
                <<TC_LONGSTRING, 0, 0, 0, 0, 0, 0, 0, 1, 97>>,
                <<TC_LONGSTRING, 255, 255, 255, 255, 255, 255, 255, 255>>,
                <<TC_BLOCKDATA, 1, 7>>, <<TC_BLOCKDATALONG, 0, 0, 0, 1, 7>>,
                Str(<<233>>), <<TC_STRING, 0, 2, 97>>, Str(<< >>),
                CD(NameA, Plain, << >>),
                <<TC_PROXYCLASSDESC, 0, 0, 0, 1>> \o Utf(<<80>>) })

ClassDescChunks ==
  { <<TC_NULL>>, CD(NameA, Plain, << >>), CD(NameA, Custom, << >>),
    CD(NameA, Plain, <<Lo>>) }
    \cup { Ref(n) : n \in 0..MaxRef }
    \cup Rare({ <<TC_STRING>>,
                CD(<<91, 73>>, Plain, << >>), CD(<<91>>, Plain, << >>),
                CD(<<91, 76, 84, 59>>, Plain, << >>),
                CD(NameA, Plain, << <<81>> \o Utf(<<113>>) >>),
                CD(NameA, Plain, << <<76>> \o Utf(<<111>>) \o Ref(0) >>),
                CD(NameA, Plain, << <<91>> \o Utf(<<111>>) \o <<TC_NULL>> >>),
                <<TC_CLASSDESC>> \o Utf(NameA) \o UID1,
                <<TC_PROXYCLASSDESC, 0, 0, 0, 2>> \o Utf(<<80>>) \o Utf(<<81>>),
                <<TC_PROXYCLASSDESC, 255, 255, 255, 255>> })

\* the bytes of a primitive value of the given type code
PrimitiveChunks(tc) ==
  CASE tc \in {66, 90} -> { <<0>>, <<200>> }
    [] tc \in {67, 83} -> { <<255, 254>> }
    [] tc \in {70, 73} -> { <<0, 0, 0, 2>>, <<255, 255, 255, 255>> }
    [] tc \in {68, 74} -> { <<0, 0, 0, 0, 0, 0, 0, 3>> }
    [] OTHER -> {}

SizeChunks == { <<0, 0, 0, 0>>, <<0, 0, 0, 1>>, <<0, 0, 0, 2>>, <<255, 255, 255, 255>> }

\* buffers that begin with an object of a class with super classes, or with
\* a class object whose descriptor has a TC_RESET among its annotations or
\* is a proxy descriptor with a class annotation, or has among its
\* annotations an enum constant between two TC_RESET, or with an array up to
\* its size, or with the array of the int values 1, 2, 3, or with an object up
\* to its fields of primitive types
ArrayOf(nm) == Header \o <<TC_ARRAY>> \o CD(nm, Plain, << >>) \o <<TC_ENDBLOCKDATA, TC_NULL>>

ObjectOf(fields) ==
  Header \o <<TC_OBJECT>> \o CD(NameA, Plain, fields) \o <<TC_ENDBLOCKDATA, TC_NULL>>

Seeds ==
  { << >>, Header,
    ArrayOf(<<91, 73>>), ArrayOf(<<91, 76, 84, 59>>),
    ObjectOf(<<Sx, Cc, Jl, By>>), ObjectOf(<<Dd, Ff>>),
    ArrayOf(<<91, 73>>) \o PackI32(3) \o PackI32(1) \o PackI32(2) \o PackI32(3),
    Header \o <<TC_OBJECT>>, Header \o <<TC_ARRAY>>, Header \o <<TC_ENUM>>,
    Header \o <<TC_CLASS>>,
    Header \o <<TC_CLASS>> \o CD(NameA, Plain, << >>) \o <<TC_RESET>>,
    Header \o <<TC_CLASS>> \o CD(NameA, Plain, << >>)
      \o <<TC_RESET, TC_ENUM, TC_NULL, TC_RESET>>,
    Header \o <<TC_CLASS, TC_PROXYCLASSDESC, 0, 0, 0, 1>> \o Utf(<<80>>)
      \o <<TC_NULL, TC_ENDBLOCKDATA>>,
    Header \o <<TC_OBJECT>> \o CD(NameA, Custom, << >>) \o <<TC_ENDBLOCKDATA, TC_NULL>>,
    Header \o <<TC_OBJECT>> \o CD(NameB, Plain, <<Ix, Lo>>) \o <<TC_ENDBLOCKDATA>>
      \o CD(NameA, Plain, <<Ix>>) \o <<TC_ENDBLOCKDATA, TC_NULL>>,
    Header \o <<TC_OBJECT>> \o CD(NameB, Plain, <<Ix>>) \o <<TC_ENDBLOCKDATA>>
      \o CD(NameA, Custom, <<Lo>>) \o <<TC_ENDBLOCKDATA, TC_NULL>>,
    Header \o <<TC_OBJECT>> \o CD(NameC, Custom, <<Ix>>) \o <<TC_ENDBLOCKDATA>>
      \o CD(NameB, Plain, <<Zb>>) \o <<TC_ENDBLOCKDATA>>
      \o CD(NameA, Custom, << >>) \o <<TC_ENDBLOCKDATA, TC_NULL>> }

(***************************************************************************)
(* Steps of a decoder session                                              *)
(***************************************************************************)
\* parse() returns None
ReturnsNone == [op |-> "done", result |-> [k |-> "none"]]

\* the exception leaves parse(): the session is over
Error(exc, why) == [op |-> "error", exc |-> exc, why |-> why]
Truncated == Error("ValueError", "Expected n bytes")

Call(op) == [op |-> op]
Return(v) == [op |-> "return", val |-> v]

Top == stack[Len(stack)]
Pop == SubSeq(stack, 1, Len(stack) - 1)
Push(f) == Append(stack, f)
ReplaceTop(f) == Append(Pop, f)

Running == ctl.op \notin {"idle", "done", "error", "hang"}

\* the bytes a reading action may find at the end of the bytes fixed so far:
\* one of S, or none (the buffer ends here)
Feed(S) ==
  IF ~closed /\ pos = Len(data) /\ fed < MaxFeeds THEN S \cup {<< >>} ELSE {<< >>}

\* the variables of the session after a step that leaves f for fed
Step(d, p, nh, hs, hp, c, st, lg, f) ==
  /\ data' = d
  /\ fed' = f
  /\ pos' = p
  /\ next_handle' = nh
  /\ handles' = hs
  /\ heap' = hp
  /\ ctl' = c
  /\ stack' = IF c.op = "error" THEN << >> ELSE st
  /\ log' = lg
  /\ UNCHANGED << gen, closed, graph, enc, reenc, other >>

Go(d, p, nh, hs, hp, c, st, lg) ==
  Step(d, p, nh, hs, hp, c, st, lg, IF Len(d) > Len(data) THEN fed + 1 ELSE fed)

\* a step that only moves the cursor and the control
Move(d, p, c, st) == Go(d, p, next_handle, handles, heap, c, st, log)

\* a step that raises
Raise(d, p, e) == Go(d, p, next_handle, handles, heap, e, << >>, log)

\* new_handle() that leaves a gap after every handle
new_handle_gap(h) == h + 2

\* new_handle() that does not move the counter
new_handle_same(h) == h

\* new_handle(): the counter after the handle is taken
new_handle(h) == h + 1

\* register_handle() that leaves the table as it is
register_nothing(hs, handle, obj) == hs

\* register_handle(): self.handles[handle] = obj
register_handle(hs, handle, obj) == Put(hs, handle, obj)

\* the history's record of new_handle() for an entity of the given kind
Alloc(kind) == [e |-> "alloc", h |-> next_handle, kind |-> kind, at |-> Len(heap)]

\* the parse log's record of a tag read where a content element is expected
TagRead(tc, at) == [e |-> "tc", tc |-> tc, at |-> at, depth |-> Len(stack)]

\* self.handles.get(handle)
HandleGet(hs, h) == IF h \in DOMAIN hs THEN hs[h] ELSE PyNone

\* the parse log's record of a TC_REFERENCE read: where its tag stands, the
\* handle read and what the table gave for it
RefRead(at, h, found) == [e |-> "ref", at |-> at, handle |-> h, found |-> found]

\* "$Proxy[" + ",".join(interfaces) + "]"
RECURSIVE Join(_)
Join(names) ==
  IF names = << >> THEN << >>
  ELSE IF Len(names) = 1 THEN names[1]
  ELSE names[1] \o <<44>> \o Join(Tail(names))

\* a name that leaves the interfaces out
BlankProxyName(interfaces) == <<36, 80, 114, 111, 120, 121, 91, 93>>

ProxyName(interfaces) == <<36, 80, 114, 111, 120, 121, 91>> \o Join(interfaces) \o <<93>>

\* str(None)
StrOfNone == <<78, 111, 110, 101>>

(***************************************************************************)
(* parse(): the four header bytes, then one content element                *)
(***************************************************************************)
Parse ==
  /\ ctl.op = "parse"
  /\ \E ext \in Feed(HeaderChunks) :
       LET d == data \o ext
           magic == read_ushort(d, pos)
           version == read_ushort(d, magic.p)
       IN  IF ~magic.ok THEN Raise(d, magic.p, Truncated)
           ELSE IF magic.v # U16(STREAM_MAGIC_HI, STREAM_MAGIC_LO)
           THEN Raise(d, magic.p, Error("ValueError", "Invalid stream magic"))
           ELSE IF ~version.ok THEN Raise(d, version.p, Truncated)
           ELSE IF version.v # STREAM_VERSION
           THEN Raise(d, version.p, Error("ValueError", "Invalid stream version"))
           ELSE Move(d, version.p, Call("read_content"), Push([k |-> "parse"]))

\* parse() returns what read_content returned
ParseReturn ==
  /\ ctl.op = "return"
  /\ Top.k = "parse"
  /\ Move(data, pos, [op |-> "done", result |-> ctl.val], << >>)

(***************************************************************************)
(* read_content(): one tag byte and the dispatch on it.  Generation v2 has *)
(* no branch for TC_EXCEPTION and none for TC_RESET.                       *)
(***************************************************************************)
\* a dispatch that takes every tag for TC_STRING
StringForAll(tc) == "read_new_string"

ContentCallee(tc) ==
  CASE tc = TC_OBJECT -> "read_new_object"
    [] tc = TC_CLASS -> "read_new_class"
    [] tc = TC_ARRAY -> "read_new_array"
    [] tc = TC_STRING -> "read_new_string"
    [] tc = TC_LONGSTRING -> "read_new_long_string"
    [] tc = TC_ENUM -> "read_new_enum"
    [] tc = TC_CLASSDESC -> "read_new_class_desc"
    [] tc = TC_PROXYCLASSDESC -> "read_new_proxy_class_desc"
    [] tc = TC_REFERENCE -> "read_prev_object"
    [] tc = TC_BLOCKDATA -> "read_block_data"
    [] tc = TC_BLOCKDATALONG -> "read_block_data_long"
    [] OTHER -> "none"

ReadContent ==
  /\ ctl.op = "read_content"
  /\ \E ext \in Feed(ContentChunks) :
       LET d == data \o ext
           tc == read_byte(d, pos)
           lg == Append(log, TagRead(tc.v, pos))
       IN  IF ~tc.ok THEN Raise(d, tc.p, Truncated)
           ELSE IF tc.v \in {TC_NULL, TC_ENDBLOCKDATA}
           THEN Go(d, tc.p, next_handle, handles, heap, Return(PyNone), stack, lg)
           ELSE IF ContentCallee(tc.v) # "none"
           THEN Go(d, tc.p, next_handle, handles, heap, Call(ContentCallee(tc.v)), stack, lg)
           ELSE IF gen = "v1" /\ tc.v = TC_EXCEPTION
           THEN Go(d, tc.p, next_handle, handles, heap,
                   Error("ValueError", "Exception in stream"), stack, lg)
           ELSE IF gen = "v1" /\ tc.v = TC_RESET
           THEN Go(d, tc.p, BASE_WIRE_HANDLE, EmptyMap, heap, Call("read_content"), stack,
                   Append(lg, [e |-> "reset"]))
           ELSE Go(d, tc.p, next_handle, handles, heap,
                   Error("ValueError", "Unknown type code"), stack, lg)

(***************************************************************************)
(* Strings, references and block data                                      *)
(***************************************************************************)
ReadNewString ==
  /\ ctl.op = "read_new_string"
  /\ LET d == data
           handle == next_handle
           s == read_utf(d, pos)
           lg == Append(log, Alloc("string"))
       IN  IF ~s.ok
           THEN Go(d, s.p, new_handle(handle), handles, heap, Truncated, stack, lg)
           ELSE Go(d, s.p, new_handle(handle), register_handle(handles, handle, PyStr(s.v)), heap,
                   Return(PyStr(s.v)), stack, lg)

ReadNewLongString ==
  /\ ctl.op = "read_new_long_string"
  /\ LET d == data
           handle == next_handle
           s == read_long_utf(d, pos)
           lg == Append(log, Alloc("longstring"))
       IN  IF ~s.ok
           THEN Go(d, s.p, new_handle(handle), handles, heap, Truncated, stack, lg)
           ELSE Go(d, s.p, new_handle(handle), register_handle(handles, handle, PyStr(s.v)), heap,
                   Return(PyStr(s.v)), stack, lg)

\* v1 wraps what it finds in a JavaReference, resolved to None for a handle
\* that is not in the table; v2 gives the entry itself, or None
ReadPrevObject ==
  /\ ctl.op = "read_prev_object"
  /\ LET d == data
           handle == read_int(d, pos)
           found == HandleGet(handles, handle.v)
       IN  IF ~handle.ok THEN Raise(d, handle.p, Truncated)
           ELSE Go(d, handle.p, next_handle, handles, heap,
                   Return(IF gen = "v1" THEN JavaReference(handle.v, found) ELSE found),
                   stack, Append(log, RefRead(pos - 1, handle.v, found)))

BlockValue(b) == IF gen = "v1" THEN PyBytes(b) ELSE PyBlockData(b)

ReadBlockData ==
  /\ ctl.op = "read_block_data"
  /\ LET d == data
           size == read_byte(d, pos)
           b == read_bytes(d, size.p, size.v)
       IN  IF ~size.ok THEN Raise(d, size.p, Truncated)
           ELSE IF ~b.ok THEN Raise(d, b.p, Truncated)
           ELSE Move(d, b.p, Return(BlockValue(b.v)), stack)

ReadBlockDataLong ==
  /\ ctl.op = "read_block_data_long"
  /\ LET d == data
           size == read_int(d, pos)
           b == read_bytes(d, size.p, size.v)
       IN  IF ~size.ok THEN Raise(d, size.p, Truncated)
           ELSE IF ~b.ok THEN Raise(d, b.p, Truncated)
           ELSE Move(d, b.p, Return(BlockValue(b.v)), stack)

(***************************************************************************)
(* Class descriptors                                                       *)
(***************************************************************************)
\* read_class_desc(): TC_NULL, a new descriptor, or a back reference, which
\* gives whatever the handle table holds at that handle (None if nothing)
ReadClassDesc ==
  /\ ctl.op = "read_class_desc"
  /\ \E ext \in Feed(ClassDescChunks) :
       LET d == data \o ext
           tc == read_byte(d, pos)
           handle == read_int(d, tc.p)
           lg == Append(log, [e |-> "desc", tc |-> tc.v, at |-> pos])
       IN  IF ~tc.ok THEN Raise(d, tc.p, Truncated)
           ELSE IF tc.v = TC_NULL
           THEN Go(d, tc.p, next_handle, handles, heap, Return(PyNone), stack, lg)
           ELSE IF tc.v = TC_CLASSDESC
           THEN Go(d, tc.p, next_handle, handles, heap, Call("read_new_class_desc"), stack, lg)
           ELSE IF tc.v = TC_PROXYCLASSDESC
           THEN Go(d, tc.p, next_handle, handles, heap,
                   Call("read_new_proxy_class_desc"), stack, lg)
           ELSE IF tc.v = TC_REFERENCE
           THEN IF ~handle.ok THEN Raise(d, handle.p, Truncated)
                ELSE Go(d, handle.p, next_handle, handles, heap,
                        Return(HandleGet(handles, handle.v)), stack,
                        Append(lg, RefRead(pos, handle.v, HandleGet(handles, handle.v))))
           ELSE Raise(d, tc.p, Error("ValueError", "Expected class descriptor"))

\* after the field table the super class at once, the class annotations
\* left unread
SuperAfterFields(cd) == [op |-> "read_class_desc", cd |-> cd]

\* after the field table: the class annotations, then the super class
AfterFields(cd) == [op |-> "read_class_annotations", cd |-> cd, annotations |-> << >>]

FieldLoop(cd, n) ==
  IF n > 0 THEN [op |-> "read_field_desc", cd |-> cd, left |-> n] ELSE AfterFields(cd)

\* read_new_class_desc() up to the field table: the handle is taken after
\* the serialVersionUID is read and entered in the table after the field
\* count is read
ReadNewClassDesc ==
  /\ ctl.op = "read_new_class_desc"
  /\ LET d == data
           class_name == read_utf(d, pos)
           serial_version_uid == read_long(d, class_name.p)
           handle == next_handle
           flags == read_byte(d, serial_version_uid.p)
           field_count == read_ushort(d, flags.p)
           class_desc == JavaClassDesc(class_name.v, serial_version_uid.v, flags.v, handle)
           id == Len(heap) + 1
           lg == Append(log, Alloc("classdesc"))
       IN  IF ~class_name.ok THEN Raise(d, class_name.p, Truncated)
           ELSE IF ~serial_version_uid.ok THEN Raise(d, serial_version_uid.p, Truncated)
           ELSE IF ~flags.ok
           THEN Go(d, flags.p, new_handle(handle), handles, heap, Truncated, stack, lg)
           ELSE IF ~field_count.ok
           THEN Go(d, field_count.p, new_handle(handle), handles, heap, Truncated, stack, lg)
           ELSE Go(d, field_count.p, new_handle(handle), register_handle(handles, handle, PyObj(id)),
                   Append(heap, class_desc), FieldLoop(id, field_count.v), stack, lg)

\* read_type_string(): a new string takes a handle; a back reference gives
\* the table's entry, and for a handle that is not there None (v1) or a
\* placeholder text (v2)
TypeStringMissing(h) ==
  IF gen = "v1" THEN PyNone ELSE [k |-> "str", s |-> <<60, 114, 101, 102, 58>>, ref |-> h]

\* read_field_desc() for one row of the field table
ReadFieldDesc ==
  /\ ctl.op = "read_field_desc"
  /\ LET d == data
           type_code == read_byte(d, pos)
           field_name == read_utf(d, type_code.p)
           tc == read_byte(d, field_name.p)
           s == read_utf(d, tc.p)
           handle == read_int(d, tc.p)
           after == FieldLoop(ctl.cd, ctl.left - 1)
           WithField(cn) ==
             [heap EXCEPT ![ctl.cd].fields =
                Append(@, JavaField(type_code.v, field_name.v, cn))]
       IN  IF ~type_code.ok THEN Raise(d, type_code.p, Truncated)
           ELSE IF ~field_name.ok THEN Raise(d, field_name.p, Truncated)
           ELSE IF type_code.v \notin {76, 91}
           THEN Go(d, field_name.p, next_handle, handles, WithField(PyNone), after, stack, log)
           ELSE IF ~tc.ok THEN Raise(d, tc.p, Truncated)
           ELSE IF tc.v = TC_STRING
           THEN IF ~s.ok
                THEN Go(d, s.p, new_handle(next_handle), handles, heap, Truncated, stack,
                        Append(log, Alloc("string")))
                ELSE Go(d, s.p, new_handle(next_handle), register_handle(handles, next_handle, PyStr(s.v)),
                        WithField(PyStr(s.v)), after, stack, Append(log, Alloc("string")))
           ELSE IF tc.v = TC_REFERENCE
           THEN IF ~handle.ok THEN Raise(d, handle.p, Truncated)
                ELSE Go(d, handle.p, next_handle, handles,
                        WithField(IF handle.v \in DOMAIN handles THEN handles[handle.v]
                                  ELSE TypeStringMissing(handle.v)),
                        after, stack,
                        Append(log, RefRead(field_name.p, handle.v,
                                            HandleGet(handles, handle.v))))
           ELSE Raise(d, tc.p, Error("ValueError", "Expected string or reference"))

\* read_class_annotations(): TC_ENDBLOCKDATA closes the list; any other byte
\* is put back and one content element is read
ReadClassAnnotations ==
  /\ ctl.op = "read_class_annotations"
  /\ \E ext \in Feed(ContentChunks) :
       LET d == data \o ext
           tc == read_byte(d, pos)
           closed_heap ==
             IF gen = "v1" THEN [heap EXCEPT ![ctl.cd].annotations = ctl.annotations]
             ELSE heap
       IN  IF ~tc.ok THEN Raise(d, tc.p, Truncated)
           ELSE IF tc.v = TC_ENDBLOCKDATA
           THEN Go(d, tc.p, next_handle, handles, closed_heap, Call("read_class_desc"),
                   Push([k |-> "super_class", cd |-> ctl.cd]),
                   Append(log, [e |-> "class_annotations_end", cd |-> ctl.cd, at |-> pos]))
           ELSE Move(d, pos, Call("read_content"),
                     Push([k |-> "class_annotations", cd |-> ctl.cd,
                           annotations |-> ctl.annotations]))

\* the element read for a class annotation: None is not kept
ClassAnnotationContent ==
  /\ ctl.op = "return"
  /\ Top.k = "class_annotations"
  /\ Move(data, pos,
          [op |-> "read_class_annotations", cd |-> Top.cd,
           annotations |-> IF IsNone(ctl.val) THEN Top.annotations
                           ELSE Append(Top.annotations, ctl.val)],
          Pop)

\* class_desc.super_class = self.read_class_desc(); return class_desc
SuperClassDesc ==
  /\ ctl.op = "return"
  /\ Top.k = "super_class"
  /\ Go(data, pos, next_handle, handles, [heap EXCEPT ![Top.cd].super_class = ctl.val],
        Return(PyObj(Top.cd)), Pop, log)

\* the interface names of a proxy class: count of them, then each
RECURSIVE ReadInterfaces(_, _, _)
ReadInterfaces(d, p, n) ==
  IF n <= 0 THEN [ok |-> TRUE, v |-> << >>, p |-> p]
  ELSE LET s == read_utf(d, p)
           rest == ReadInterfaces(d, s.p, n - 1)
       IN  IF ~s.ok THEN [ok |-> FALSE, v |-> << >>, p |-> s.p]
           ELSE [ok |-> rest.ok, v |-> <<s.v>> \o rest.v, p |-> rest.p]

ReadNewProxyClassDesc ==
  /\ ctl.op = "read_new_proxy_class_desc"
  /\ LET d == data
           interface_count == read_int(d, pos)
           interfaces == ReadInterfaces(d, interface_count.p, interface_count.v)
           handle == next_handle
           class_desc ==
             JavaClassDesc(ProxyName(interfaces.v), <<0, 0, 0, 0, 0, 0, 0, 0>>,
                           SC_SERIALIZABLE, handle)
           id == Len(heap) + 1
       IN  IF ~interface_count.ok THEN Raise(d, interface_count.p, Truncated)
           ELSE IF ~interfaces.ok THEN Raise(d, interfaces.p, Truncated)
           ELSE Go(d, interfaces.p, new_handle(handle), register_handle(handles, handle, PyObj(id)),
                   Append(heap, class_desc), AfterFields(id), stack,
                   Append(log, Alloc("proxyclassdesc")))

(***************************************************************************)
(* Objects                                                                 *)
(***************************************************************************)
IsClassDesc(hp, v) == v.k = "obj" /\ hp[v.id].t = "JavaClassDesc"

\* what ends the walk up the super classes: None (v1, "is not None"),
\* anything false (v2, "while current")
EndsChain(v) == IsNone(v) \/ (gen = "v2" /\ v.k = "str" /\ v.s = << >>)

\* hierarchy.append(current); current = current.super_class, from the
\* object's class upward.  A value without super_class raises
\* AttributeError; a chain that comes back to a class never ends.
RECURSIVE Chain(_, _, _)
Chain(hp, v, seen) ==
  IF EndsChain(v) THEN [end |-> "ok", h |-> << >>]
  ELSE IF ~IsClassDesc(hp, v) THEN [end |-> "AttributeError", h |-> << >>]
  ELSE IF v.id \in seen THEN [end |-> "hang", h |-> << >>]
  ELSE LET r == Chain(hp, hp[v.id].super_class, seen \cup {v.id})
       IN  [end |-> r.end, h |-> <<v.id>> \o r.h]

\* a hierarchy left in the order the walk found it, the object's class first
Unreversed(q) == q

\* list(reversed(hierarchy))
Reverse(q) == [i \in 1..Len(q) |-> q[Len(q) + 1 - i]]

\* read_field_value() that takes two bytes for every value wider than one
ReadPrimitiveNarrow(d, p, tc) ==
  LET b1 == read_byte(d, p)
      s2 == read_short(d, p)
      R(r, v) == [ok |-> r.ok, known |-> TRUE, v |-> v, p |-> r.p]
  IN  CASE tc = 66 -> R(b1, PyInt(b1.v))
        [] tc = 90 -> R(b1, PyBool(b1.v # 0))
        [] tc \in {67, 68, 70, 73, 74, 83} -> R(s2, PyInt(s2.v))
        [] OTHER -> [ok |-> TRUE, known |-> FALSE, v |-> PyNone, p |-> p]

\* read_field_value() for a primitive type code: [ok, known, v, p]
ReadPrimitive(d, p, tc) ==
  LET b1 == read_byte(d, p)
      u2 == read_ushort(d, p)
      s2 == read_short(d, p)
      i4 == read_int(d, p)
      b4 == read_bytes(d, p, 4)
      b8 == read_bytes(d, p, 8)
      R(r, v) == [ok |-> r.ok, known |-> TRUE, v |-> v, p |-> r.p]
  IN  CASE tc = 66 -> R(b1, PyInt(b1.v))
        [] tc = 67 -> R(u2, PyStr(<<u2.v>>))
        [] tc = 68 -> R(b8, PyFloat(b8.v))
        [] tc = 70 -> R(b4, PyFloat(b4.v))
        [] tc = 73 -> R(i4, PyInt(i4.v))
        [] tc = 74 -> R(b8, PyLong(b8.v))
        [] tc = 83 -> R(s2, PyInt(s2.v))
        [] tc = 90 -> R(b1, PyBool(b1.v # 0))
        [] OTHER -> [ok |-> TRUE, known |-> FALSE, v |-> PyNone, p |-> p]

ReadNewObject ==
  /\ ctl.op = "read_new_object"
  /\ Move(data, pos, Call("read_class_desc"), Push([k |-> "new_object"]))

\* read_new_object() once the class descriptor is there: no descriptor, no
\* object and no handle; otherwise the handle, the object, its entry in the
\* table, and the hierarchy of read_object_data()
NewObjectClassDesc ==
  /\ ctl.op = "return"
  /\ Top.k = "new_object"
  /\ LET class_desc == ctl.val
         handle == next_handle
         id == Len(heap) + 1
         hp == Append(heap, JavaObject(class_desc, handle))
         hs == register_handle(handles, handle, PyObj(id))
         lg == Append(log, Alloc("object"))
         chain == Chain(hp, class_desc, {})
         lacks == chain.end = "AttributeError" \/ (gen = "v2" /\ ~IsClassDesc(hp, class_desc))
     IN  IF IsNone(class_desc) THEN Move(data, pos, Return(PyNone), Pop)
         ELSE IF lacks
         THEN Go(data, pos, new_handle(handle), hs, hp, Error("AttributeError", "no attribute"), Pop, lg)
         ELSE IF chain.end # "ok"
         THEN Go(data, pos, new_handle(handle), hs, hp, [op |-> chain.end], Pop, lg)
         ELSE Go(data, pos, new_handle(handle), hs, hp,
                 [op |-> "read_object_data", obj |-> id, hierarchy |-> Reverse(chain.h),
                  ci |-> 1, fi |-> 1], Pop,
                 Append(lg, [e |-> "object", obj |-> id, hierarchy |-> Reverse(chain.h),
                             at |-> pos]))

\* the bytes offered for the field that read_object_data() is at
FieldValueChunks ==
  IF ctl.ci <= Len(ctl.hierarchy)
  THEN LET fields == heap[ctl.hierarchy[ctl.ci]].fields
       IN  IF ctl.fi <= Len(fields) THEN PrimitiveChunks(fields[ctl.fi].type_code) ELSE {}
  ELSE {}

ObjectLoop(obj, hierarchy, ci, fi) ==
  [op |-> "read_object_data", obj |-> obj, hierarchy |-> hierarchy, ci |-> ci, fi |-> fi]

\* read_object_data(): the classes of the hierarchy from the root-most down,
\* for each its fields in the descriptor's order, then its annotations if
\* its flags have SC_WRITE_METHOD
ReadObjectData ==
  /\ ctl.op = "read_object_data"
  /\ \E ext \in Feed(FieldValueChunks) :
       LET d == data \o ext
           done == ctl.ci > Len(ctl.hierarchy)
           cid == ctl.hierarchy[ctl.ci]
           cls == heap[cid]
           field == cls.fields[ctl.fi]
           r == ReadPrimitive(d, pos, field.type_code)
           lg == Append(log, [e |-> "field", obj |-> ctl.obj, cls |-> cid, fi |-> ctl.fi,
                              at |-> pos])
       IN  IF done
           THEN Go(data, pos, next_handle, handles, heap, Return(PyObj(ctl.obj)), stack,
                   Append(log, [e |-> "object_end", obj |-> ctl.obj, at |-> pos]))
           ELSE IF ctl.fi > Len(cls.fields)
           THEN IF has_write_method(cls)
                THEN Go(data, pos, next_handle, handles, heap,
                        [op |-> "read_object_annotations", obj |-> ctl.obj,
                         hierarchy |-> ctl.hierarchy, ci |-> ctl.ci, annotations |-> << >>],
                        stack,
                        Append(log, [e |-> "annotations", obj |-> ctl.obj, cls |-> cid,
                                     at |-> pos]))
                ELSE Go(data, pos, next_handle, handles, heap,
                        ObjectLoop(ctl.obj, ctl.hierarchy, ctl.ci + 1, 1), stack,
                        Append(log, [e |-> "no_annotations", obj |-> ctl.obj, cls |-> cid,
                                     at |-> pos]))
           ELSE IF field.type_code \in {76, 91}
           THEN Go(data, pos, next_handle, handles, heap, Call("read_content"),
                   Push([k |-> "field_value", obj |-> ctl.obj, hierarchy |-> ctl.hierarchy,
                         ci |-> ctl.ci, fi |-> ctl.fi]), lg)
           ELSE IF ~r.known
           THEN Go(data, pos, next_handle, handles, heap,
                   Error("ValueError", "Unknown field type code"), stack, lg)
           ELSE IF ~r.ok
           THEN Go(d, r.p, next_handle, handles, heap, Truncated, stack, lg)
           ELSE Go(d, r.p, next_handle, handles,
                   [heap EXCEPT ![ctl.obj].field_values = DictSet(@, field.name, r.v)],
                   ObjectLoop(ctl.obj, ctl.hierarchy, ctl.ci, ctl.fi + 1), stack, lg)

\* obj.field_values[field.name] = value, for a field that holds a reference
FieldValueContent ==
  /\ ctl.op = "return"
  /\ Top.k = "field_value"
  /\ LET field == heap[Top.hierarchy[Top.ci]].fields[Top.fi]
     IN  Go(data, pos, next_handle, handles,
            [heap EXCEPT ![Top.obj].field_values = DictSet(@, field.name, ctl.val)],
            ObjectLoop(Top.obj, Top.hierarchy, Top.ci, Top.fi + 1), Pop, log)

\* read_object_annotations(): as for a class; the elements are added to the
\* object's annotations when TC_ENDBLOCKDATA closes the list
ReadObjectAnnotations ==
  /\ ctl.op = "read_object_annotations"
  /\ \E ext \in Feed(ContentChunks) :
       LET d == data \o ext
           tc == read_byte(d, pos)
       IN  IF ~tc.ok THEN Raise(d, tc.p, Truncated)
           ELSE IF tc.v = TC_ENDBLOCKDATA
           THEN Go(d, tc.p, next_handle, handles,
                   [heap EXCEPT ![ctl.obj].annotations = @ \o ctl.annotations],
                   ObjectLoop(ctl.obj, ctl.hierarchy, ctl.ci + 1, 1), stack,
                   Append(log, [e |-> "annotations_end", obj |-> ctl.obj,
                                cls |-> ctl.hierarchy[ctl.ci], at |-> pos]))
           ELSE Move(d, pos, Call("read_content"),
                     Push([k |-> "object_annotations", obj |-> ctl.obj,
                           hierarchy |-> ctl.hierarchy, ci |-> ctl.ci,
                           annotations |-> ctl.annotations]))

\* the element read for an object annotation: None is not kept
ObjectAnnotationContent ==
  /\ ctl.op = "return"
  /\ Top.k = "object_annotations"
  /\ Move(data, pos,
          [op |-> "read_object_annotations", obj |-> Top.obj, hierarchy |-> Top.hierarchy,
           ci |-> Top.ci,
           annotations |-> IF IsNone(ctl.val) THEN Top.annotations
                           ELSE Append(Top.annotations, ctl.val)],
          Pop)

(***************************************************************************)
(* Arrays, enum constants, class objects                                   *)
(***************************************************************************)
ReadNewArray ==
  /\ ctl.op = "read_new_array"
  /\ Move(data, pos, Call("read_class_desc"), Push([k |-> "new_array"]))

\* a loop that leaves out the last element
ShortArrayLoop(arr, et, left) ==
  [op |-> "read_array_elements", arr |-> arr, element_type |-> et, left |-> left - 1]

ArrayLoop(arr, et, left) ==
  [op |-> "read_array_elements", arr |-> arr, element_type |-> et, left |-> left]

\* read_new_array() once the class descriptor is there: the handle, the
\* size, the array and its entry in the table, then the element type from
\* the class name: what follows "[" (v1: all of it, v2: its first character)
NewArrayClassDesc ==
  /\ ctl.op = "return"
  /\ Top.k = "new_array"
  /\ \E ext \in Feed(SizeChunks) :
       LET d == data \o ext
           class_desc == ctl.val
           handle == next_handle
           size == read_int(d, pos)
           id == Len(heap) + 1
           hp == Append(heap, JavaArray(class_desc, handle))
           hs == register_handle(handles, handle, PyObj(id))
           lg == Append(log, Alloc("array"))
           name == heap[class_desc.id].name
           element_type ==
             IF name # << >> /\ name[1] = 91
             THEN IF gen = "v1" THEN Tail(name) ELSE <<name[2]>>
             ELSE <<76>>
       IN  IF ~size.ok THEN Go(d, size.p, new_handle(handle), handles, heap, Truncated, Pop, lg)
           ELSE IF ~IsClassDesc(heap, class_desc)
           THEN Go(d, size.p, new_handle(handle), hs, hp, Error("AttributeError", "no attribute"),
                   Pop, lg)
           ELSE IF gen = "v2" /\ name = <<91>>
           THEN Go(d, size.p, new_handle(handle), hs, hp, Error("IndexError", "string index"), Pop, lg)
           ELSE Go(d, size.p, new_handle(handle), hs, hp, ArrayLoop(id, element_type, size.v), Pop, lg)

ElementCode ==
  IF ctl.left > 0 /\ Len(ctl.element_type) = 1 THEN ctl.element_type[1] ELSE 0

\* one turn of the loop over range(size)
ReadArrayElement ==
  /\ ctl.op = "read_array_elements"
  /\ \E ext \in Feed(PrimitiveChunks(ElementCode)) :
       LET d == data \o ext
           tc == IF Len(ctl.element_type) = 1 THEN ctl.element_type[1] ELSE 0
           r == ReadPrimitive(d, pos, tc)
       IN  IF ctl.left <= 0 THEN Move(data, pos, Return(PyObj(ctl.arr)), stack)
           ELSE IF ~r.known
           THEN Move(data, pos, Call("read_content"),
                     Push([k |-> "array_element", arr |-> ctl.arr,
                           element_type |-> ctl.element_type, left |-> ctl.left]))
           ELSE IF ~r.ok THEN Raise(d, r.p, Truncated)
           ELSE Go(d, r.p, next_handle, handles,
                   [heap EXCEPT ![ctl.arr].elements = Append(@, r.v)],
                   ArrayLoop(ctl.arr, ctl.element_type, ctl.left - 1), stack, log)

\* arr.elements.append(self.read_content())
ArrayElementContent ==
  /\ ctl.op = "return"
  /\ Top.k = "array_element"
  /\ Go(data, pos, next_handle, handles,
        [heap EXCEPT ![Top.arr].elements = Append(@, ctl.val)],
        ArrayLoop(Top.arr, Top.element_type, Top.left - 1), Pop, log)

ReadNewEnum ==
  /\ ctl.op = "read_new_enum"
  /\ Move(data, pos, Call("read_class_desc"), Push([k |-> "new_enum"]))

\* read_new_enum() once the class descriptor is there: the handle is taken
\* before the constant's name is read
NewEnumClassDesc ==
  /\ ctl.op = "return"
  /\ Top.k = "new_enum"
  /\ Go(data, pos, new_handle(next_handle), handles, heap, Call("read_content"),
        ReplaceTop([k |-> "enum_constant", class_desc |-> ctl.val, handle |-> next_handle]),
        Append(log, Alloc("enum")))

\* str(constant) of v2 for what is not a str
StrOf(v) == IF IsNone(v) THEN PyStr(StrOfNone) ELSE [k |-> "str", s |-> << >>, of |-> v]

\* the enum constant and its entry in the table, once the name is read
EnumConstantContent ==
  /\ ctl.op = "return"
  /\ Top.k = "enum_constant"
  /\ LET constant_name ==
           IF gen = "v1"
           THEN IF ctl.val.k = "JavaReference" THEN ctl.val.resolved ELSE ctl.val
           ELSE IF ctl.val.k = "str" THEN ctl.val ELSE StrOf(ctl.val)
         id == Len(heap) + 1
         hp == Append(heap, JavaEnum(Top.class_desc, constant_name, Top.handle))
         hs == register_handle(handles, Top.handle, PyObj(id))
     IN  IF gen = "v2" /\ ~IsClassDesc(heap, Top.class_desc)
         THEN Go(data, pos, next_handle, hs, hp, Error("AttributeError", "no attribute"),
                 Pop, log)
         ELSE Go(data, pos, next_handle, hs, hp, Return(PyObj(id)), Pop, log)

ReadNewClass ==
  /\ ctl.op = "read_new_class"
  /\ Move(data, pos, Call("read_class_desc"), Push([k |-> "new_class"]))

\* read_new_class() once the class descriptor is there: a handle of its own
\* for what read_class_desc() gave, None included
NewClassClassDesc ==
  /\ ctl.op = "return"
  /\ Top.k = "new_class"
  /\ Go(data, pos, new_handle(next_handle), register_handle(handles, next_handle, ctl.val), heap,
        Return(ctl.val), Pop, Append(log, Alloc("class")))

(***************************************************************************)
(* JavaStreamDumper (bwn_dump.py).  A session of generation "dump" reads   *)
(* the buffer with dump(); the lines it writes are the events of log.  Its *)
(* readers hand what stream.read() gave to struct.unpack(), which raises   *)
(* struct.error when the bytes are too few.                                *)
(***************************************************************************)
Short == Error("struct.error", "unpack requires a buffer")

\* the bytes stream.read(n) gives: as many as are left when fewer than n are
Available(d, p, n) == IF n <= Len(d) - p THEN n ELSE Len(d) - p

\* read_utf() of the dumper: the text is what is left of it in the buffer
dump_read_utf(d, p) ==
  LET l == read_ushort(d, p)
      n == Available(d, l.p, l.v)
  IN  [ok |-> l.ok, v |-> DecodeStr(Take(d, l.p, n)), p |-> l.p + n, short |-> n < l.v]

\* a step of the dumper; when stream.read() gave fewer bytes than it was asked
\* for, the buffer has ended and is whole: no piece is added to it afterwards
Lenient(short, d, p, nh, hs, hp, c, st, lg) ==
  IF short THEN Step(d, p, nh, hs, hp, c, st, lg, MaxFeeds)
  ELSE Go(d, p, nh, hs, hp, c, st, lg)

ClassInfo(nm, uid, fl, fields, h) ==
  [t |-> "ClassInfo", name |-> nm, uid |-> uid, flags |-> fl, fields |-> fields,
   super_class |-> PyNone, handle |-> h]

IsClassInfo(hp, v) == v.k = "obj" /\ hp[v.id].t = "ClassInfo"

\* the table's entry for an object, an array, an enum constant:
\* (tag, class_info.name), or (tag, str(class_info)) for what is no ClassInfo
Tagged(tag, hp, class_info) ==
  [k |-> "tuple", tag |-> tag,
   name |-> IF IsClassInfo(hp, class_info) THEN PyStr(hp[class_info.id].name)
            ELSE StrOf(class_info)]

\* dump(): the header is read and written out, not compared with anything
Dump ==
  \/ /\ ctl.op = "dump"
     /\ \E ext \in Feed(HeaderChunks) :
          LET d == data \o ext
              magic == read_ushort(d, pos)
              version == read_ushort(d, magic.p)
          IN  IF ~magic.ok THEN Raise(d, magic.p, Short)
              ELSE IF ~version.ok THEN Raise(d, version.p, Short)
              ELSE Go(d, version.p, next_handle, handles, heap, Call("dump_content"),
                      Push([k |-> "dump"]),
                      Append(log, [e |-> "header", magic |-> magic.v,
                                   version |-> version.v]))
  \/ /\ ctl.op = "return"
     /\ Top.k = "dump"
     /\ Move(data, pos, [op |-> "dumped"], << >>)

\* dump_content(): a reference and a block are read here; a tag without a
\* branch is written out as unknown and nothing more is read for it
DumpContent ==
  /\ ctl.op = "dump_content"
  /\ \E ext \in Feed(ContentChunks) :
       LET d == data \o ext
           tc == read_byte(d, pos)
           lg == Append(log, TagRead(tc.v, pos))
           handle == read_int(d, tc.p)
           size == read_byte(d, tc.p)
           n == Available(d, size.p, size.v)
           callee ==
             CASE tc.v = TC_CLASSDESC -> "dump_new_classdesc"
               [] tc.v = TC_OBJECT -> "dump_new_object"
               [] tc.v = TC_STRING -> "dump_new_string"
               [] tc.v = TC_ARRAY -> "dump_new_array"
               [] tc.v = TC_ENUM -> "dump_new_enum"
               [] OTHER -> "none"
       IN  IF ~tc.ok THEN Raise(d, tc.p, Short)
           ELSE IF tc.v = TC_REFERENCE
           THEN IF ~handle.ok
                THEN Go(d, handle.p, next_handle, handles, heap, Short, stack, lg)
                ELSE Go(d, handle.p, next_handle, handles, heap, Return(PyNone), stack,
                        Append(lg, RefRead(pos, handle.v, HandleGet(handles, handle.v))))
           ELSE IF tc.v = TC_BLOCKDATA
           THEN IF ~size.ok THEN Go(d, size.p, next_handle, handles, heap, Short, stack, lg)
                ELSE Lenient(n < size.v, d, size.p + n, next_handle, handles, heap,
                             Return(PyNone), stack,
                             Append(lg, [e |-> "blockdata", b |-> Take(d, size.p, n)]))
           ELSE IF callee # "none"
           THEN Go(d, tc.p, next_handle, handles, heap, Call(callee), stack, lg)
           ELSE IF tc.v \in {TC_NULL, TC_ENDBLOCKDATA}
           THEN Go(d, tc.p, next_handle, handles, heap, Return(PyNone), stack, lg)
           ELSE Go(d, tc.p, next_handle, handles, heap, Return(PyNone), stack,
                   Append(lg, [e |-> "unknown", tc |-> tc.v]))

\* dump_new_string(): the handle, then the text, then the entry in the table
DumpNewString ==
  /\ ctl.op = "dump_new_string"
  /\ LET s == dump_read_utf(data, pos)
         lg == Append(log, Alloc("string"))
     IN  IF ~s.ok
         THEN Go(data, s.p, new_handle(next_handle), handles, heap, Short, stack, lg)
         ELSE Lenient(s.short, data, s.p, new_handle(next_handle),
                      register_handle(handles, next_handle, PyStr(s.v)), heap,
                      Return(PyNone), stack, lg)

\* dump_classdesc(): a tag that is none of TC_NULL, TC_REFERENCE and
\* TC_CLASSDESC is written out as unexpected and gives None
DumpClassdesc ==
  /\ ctl.op = "dump_classdesc"
  /\ \E ext \in Feed(ClassDescChunks) :
       LET d == data \o ext
           tc == read_byte(d, pos)
           handle == read_int(d, tc.p)
           lg == Append(log, [e |-> "desc", tc |-> tc.v, at |-> pos])
       IN  IF ~tc.ok THEN Raise(d, tc.p, Short)
           ELSE IF tc.v = TC_REFERENCE
           THEN IF ~handle.ok THEN Raise(d, handle.p, Short)
                ELSE Go(d, handle.p, next_handle, handles, heap,
                        Return(HandleGet(handles, handle.v)), stack,
                        Append(lg, RefRead(pos, handle.v, HandleGet(handles, handle.v))))
           ELSE IF tc.v = TC_CLASSDESC
           THEN Go(d, tc.p, next_handle, handles, heap, Call("dump_new_classdesc"), stack, lg)
           ELSE Go(d, tc.p, next_handle, handles, heap, Return(PyNone), stack, lg)

\* dump_new_classdesc(): the handle is taken after the serialVersionUID; the
\* rows of the field table are read, a type that is neither TC_STRING nor
\* TC_REFERENCE being passed over; then the ClassInfo is made and entered in
\* the table; then the class annotations up to TC_ENDBLOCKDATA, and the
\* super class
DumpNewClassdesc ==
  \/ /\ ctl.op = "dump_new_classdesc"
     /\ LET d == data
            class_name == dump_read_utf(d, pos)
            uid == read_long(d, class_name.p)
            flags == read_byte(d, uid.p)
            field_count == read_ushort(d, flags.p)
            lg == Append(log, Alloc("classdesc"))
        IN  IF ~class_name.ok THEN Raise(d, class_name.p, Short)
            ELSE IF ~uid.ok THEN Raise(d, uid.p, Short)
            ELSE IF ~flags.ok
            THEN Go(d, flags.p, new_handle(next_handle), handles, heap, Short, stack, lg)
            ELSE IF ~field_count.ok
            THEN Go(d, field_count.p, new_handle(next_handle), handles, heap, Short, stack, lg)
            ELSE Go(d, field_count.p, new_handle(next_handle), handles, heap,
                    [op |-> "dump_fields", name |-> class_name.v, uid |-> uid.v,
                     flags |-> flags.v, handle |-> next_handle, fields |-> << >>,
                     left |-> field_count.v],
                    stack, lg)
  \/ /\ ctl.op = "dump_fields"
     /\ LET d == data
            type_code == read_byte(d, pos)
            field_name == dump_read_utf(d, type_code.p)
            tc == read_byte(d, field_name.p)
            s == dump_read_utf(d, tc.p)
            ref_h == read_int(d, tc.p)
            id == Len(heap) + 1
            Row(cn) ==
              [ctl EXCEPT !.fields = Append(@, JavaField(type_code.v, field_name.v, cn)),
                          !.left = @ - 1]
        IN  IF ctl.left <= 0
            THEN Go(d, pos, next_handle, register_handle(handles, ctl.handle, PyObj(id)),
                    Append(heap, ClassInfo(ctl.name, ctl.uid, ctl.flags, ctl.fields,
                                           ctl.handle)),
                    [op |-> "dump_class_annotation", cd |-> id], stack, log)
            ELSE IF ~type_code.ok THEN Raise(d, type_code.p, Short)
            ELSE IF ~field_name.ok THEN Raise(d, field_name.p, Short)
            ELSE IF type_code.v \notin {76, 91}
            THEN Lenient(field_name.short, d, field_name.p, next_handle, handles, heap,
                         Row(PyNone), stack, log)
            ELSE IF ~tc.ok THEN Raise(d, tc.p, Short)
            ELSE IF tc.v = TC_STRING
            THEN IF ~s.ok
                 THEN Go(d, s.p, new_handle(next_handle), handles, heap, Short, stack,
                         Append(log, Alloc("string")))
                 ELSE Lenient(s.short, d, s.p, new_handle(next_handle),
                              register_handle(handles, next_handle, PyStr(s.v)), heap,
                              Row(PyStr(s.v)), stack, Append(log, Alloc("string")))
            ELSE IF tc.v = TC_REFERENCE
            THEN IF ~ref_h.ok THEN Raise(d, ref_h.p, Short)
                 ELSE Go(d, ref_h.p, next_handle, handles, heap,
                         Row(IF ref_h.v \in DOMAIN handles THEN handles[ref_h.v]
                             ELSE TypeStringMissing(ref_h.v)),
                         stack,
                         Append(log, RefRead(field_name.p, ref_h.v,
                                             HandleGet(handles, ref_h.v))))
            ELSE Move(d, tc.p, Row(PyNone), stack)
  \/ /\ ctl.op = "dump_class_annotation"
     /\ \E ext \in Feed(ContentChunks) :
          LET d == data \o ext
              tc == read_byte(d, pos)
          IN  IF ~tc.ok THEN Raise(d, tc.p, Short)
              ELSE IF tc.v = TC_ENDBLOCKDATA
              THEN Go(d, tc.p, next_handle, handles, heap, Call("dump_classdesc"),
                      Push([k |-> "dump_super_class", cd |-> ctl.cd]),
                      Append(log, [e |-> "class_annotations_end", cd |-> ctl.cd,
                                   at |-> pos]))
              ELSE Move(d, pos, Call("dump_content"),
                        Push([k |-> "dump_class_annotation", cd |-> ctl.cd]))
  \/ /\ ctl.op = "return"
     /\ Top.k = "dump_class_annotation"
     /\ Move(data, pos, [op |-> "dump_class_annotation", cd |-> Top.cd], Pop)
  \/ /\ ctl.op = "return"
     /\ Top.k = "dump_super_class"
     /\ Go(data, pos, next_handle, handles, [heap EXCEPT ![Top.cd].super_class = ctl.val],
           Return(PyObj(Top.cd)), Pop, log)

\* while current and isinstance(current, ClassInfo): hierarchy.append(current);
\* current = current.super_class
RECURSIVE DumpChain(_, _, _)
DumpChain(hp, v, seen) ==
  IF ~IsClassInfo(hp, v) THEN [end |-> "ok", h |-> << >>]
  ELSE IF v.id \in seen THEN [end |-> "hang", h |-> << >>]
  ELSE LET r == DumpChain(hp, hp[v.id].super_class, seen \cup {v.id})
       IN  [end |-> r.end, h |-> <<v.id>> \o r.h]

\* where dump_new_object() stands in the classes and their fields
DumpObjectLoop(obj, hierarchy, ci, fi) ==
  [op |-> "dump_object_data", obj |-> obj, hierarchy |-> hierarchy, ci |-> ci, fi |-> fi]

\* dump_new_object(): no handle without a class descriptor; the entry in the
\* table is a tuple; the hierarchy ends at what is no ClassInfo; for each of
\* its classes, root-most first, dump_field_value() for its fields, which
\* reads nothing for a type code it does not know, then the annotations up
\* to TC_ENDBLOCKDATA if the flags have SC_WRITE_METHOD
DumpNewObject ==
  \/ /\ ctl.op = "dump_new_object"
     /\ Move(data, pos, Call("dump_classdesc"), Push([k |-> "dump_new_object"]))
  \/ /\ ctl.op = "return"
     /\ Top.k = "dump_new_object"
     /\ LET class_info == ctl.val
            handle == next_handle
            hs == register_handle(handles, handle, Tagged("Object", heap, class_info))
            lg == Append(log, Alloc("object"))
            chain == DumpChain(heap, class_info, {})
        IN  IF IsNone(class_info) THEN Move(data, pos, Return(PyNone), Pop)
            ELSE IF chain.end # "ok"
            THEN Go(data, pos, new_handle(handle), hs, heap, [op |-> chain.end], Pop, lg)
            ELSE IF chain.h = << >>
            THEN Go(data, pos, new_handle(handle), hs, heap, Return(PyNone), Pop, lg)
            ELSE Go(data, pos, new_handle(handle), hs, heap,
                    DumpObjectLoop(handle, Reverse(chain.h), 1, 1), Pop,
                    Append(lg, [e |-> "object", obj |-> handle,
                                hierarchy |-> Reverse(chain.h), at |-> pos]))
  \/ /\ ctl.op = "dump_object_data"
     /\ \E ext \in Feed(FieldValueChunks) :
          LET d == data \o ext
              cid == ctl.hierarchy[ctl.ci]
              cls == heap[cid]
              field == cls.fields[ctl.fi]
              r == ReadPrimitive(d, pos, field.type_code)
              next == DumpObjectLoop(ctl.obj, ctl.hierarchy, ctl.ci, ctl.fi + 1)
              lg == Append(log, [e |-> "field", obj |-> ctl.obj, cls |-> cid,
                                 fi |-> ctl.fi, at |-> pos])
          IN  IF ctl.ci > Len(ctl.hierarchy)
              THEN Go(data, pos, next_handle, handles, heap, Return(PyNone), stack,
                      Append(log, [e |-> "object_end", obj |-> ctl.obj, at |-> pos]))
              ELSE IF ctl.fi > Len(cls.fields)
              THEN IF has_write_method(cls)
                   THEN Go(data, pos, next_handle, handles, heap,
                           [op |-> "dump_object_annotation", obj |-> ctl.obj,
                            hierarchy |-> ctl.hierarchy, ci |-> ctl.ci],
                           stack,
                           Append(log, [e |-> "annotations", obj |-> ctl.obj, cls |-> cid,
                                        at |-> pos]))
                   ELSE Go(data, pos, next_handle, handles, heap,
                           DumpObjectLoop(ctl.obj, ctl.hierarchy, ctl.ci + 1, 1), stack,
                           Append(log, [e |-> "no_annotations", obj |-> ctl.obj,
                                        cls |-> cid, at |-> pos]))
              ELSE IF field.type_code \in {76, 91}
              THEN Go(data, pos, next_handle, handles, heap, Call("dump_content"),
                      Push([k |-> "dump_field_value", obj |-> ctl.obj,
                            hierarchy |-> ctl.hierarchy, ci |-> ctl.ci, fi |-> ctl.fi]), lg)
              ELSE IF ~r.known THEN Go(data, pos, next_handle, handles, heap, next, stack, lg)
              ELSE IF ~r.ok THEN Go(d, r.p, next_handle, handles, heap, Short, stack, lg)
              ELSE Go(d, r.p, next_handle, handles, heap, next, stack, lg)
  \/ /\ ctl.op = "return"
     /\ Top.k = "dump_field_value"
     /\ Move(data, pos, DumpObjectLoop(Top.obj, Top.hierarchy, Top.ci, Top.fi + 1), Pop)
  \/ /\ ctl.op = "dump_object_annotation"
     /\ \E ext \in Feed(ContentChunks) :
          LET d == data \o ext
              tc == read_byte(d, pos)
          IN  IF ~tc.ok THEN Raise(d, tc.p, Short)
              ELSE IF tc.v = TC_ENDBLOCKDATA
              THEN Go(d, tc.p, next_handle, handles, heap,
                      DumpObjectLoop(ctl.obj, ctl.hierarchy, ctl.ci + 1, 1), stack,
                      Append(log, [e |-> "annotations_end", obj |-> ctl.obj,
                                   cls |-> ctl.hierarchy[ctl.ci], at |-> pos]))
              ELSE Move(d, pos, Call("dump_content"),
                        Push([k |-> "dump_object_annotation", obj |-> ctl.obj,
                              hierarchy |-> ctl.hierarchy, ci |-> ctl.ci]))
  \/ /\ ctl.op = "return"
     /\ Top.k = "dump_object_annotation"
     /\ Move(data, pos,
             [op |-> "dump_object_annotation", obj |-> Top.obj,
              hierarchy |-> Top.hierarchy, ci |-> Top.ci], Pop)

\* dump_content_silent(): what is passed over for an element beyond the
\* tenth of an array: [ok, p, nh, short], the offset and the handle counter
\* after it, and whether a text or a block ended with the buffer
RECURSIVE dump_content_silent(_, _, _)
dump_content_silent(d, p, nh) ==
  LET tc == read_byte(d, p)
      handle == read_int(d, tc.p)
      s == dump_read_utf(d, tc.p)
      size == read_byte(d, tc.p)
      n == Available(d, size.p, size.v)
      Then(r) == IF r.ok THEN dump_content_silent(d, r.p, r.nh) ELSE r
      After(ok, at, h, short) == [ok |-> ok, p |-> at, nh |-> h, short |-> short]
  IN  IF ~tc.ok THEN After(FALSE, tc.p, nh, FALSE)
      ELSE IF tc.v = TC_REFERENCE THEN After(handle.ok, handle.p, nh, FALSE)
      ELSE IF tc.v = TC_OBJECT THEN dump_content_silent(d, tc.p, nh)
      ELSE IF tc.v = TC_STRING THEN After(s.ok, s.p, new_handle(nh), s.short)
      ELSE IF tc.v = TC_BLOCKDATA THEN After(size.ok, size.p + n, nh, n < size.v)
      ELSE IF tc.v = TC_ENUM THEN Then(dump_content_silent(d, tc.p, nh))
      ELSE After(TRUE, tc.p, nh, FALSE)

\* where dump_new_array() stands in the elements: i of size are behind it
DumpArrayLoop(et, i, size) ==
  [op |-> "dump_array_elements", element_type |-> et, i |-> i, size |-> size]

\* dump_new_array(): the handle, the size, the entry in the table; the
\* element type is the second character of a name that begins with "[";
\* the first ten elements are written out, the others passed over
DumpNewArray ==
  \/ /\ ctl.op = "dump_new_array"
     /\ Move(data, pos, Call("dump_classdesc"), Push([k |-> "dump_new_array"]))
  \/ /\ ctl.op = "return"
     /\ Top.k = "dump_new_array"
     /\ \E ext \in Feed(SizeChunks) :
          LET d == data \o ext
              class_info == ctl.val
              handle == next_handle
              size == read_int(d, pos)
              name == IF IsClassInfo(heap, class_info) THEN heap[class_info.id].name
                      ELSE IF class_info.k = "str" THEN class_info.s
                      ELSE << >>
              entry == Tagged("Array", heap, class_info)
              hs == register_handle(handles, handle,
                                    [k |-> "tuple", tag |-> "Array", name |-> entry.name,
                                     size |-> size.v])
              lg == Append(log, Alloc("array"))
          IN  IF ~size.ok
              THEN Go(d, size.p, new_handle(handle), handles, heap, Short, Pop, lg)
              ELSE IF name = <<91>>
              THEN Go(d, size.p, new_handle(handle), hs, heap,
                      Error("IndexError", "string index"), Pop, lg)
              ELSE Go(d, size.p, new_handle(handle), hs, heap,
                      DumpArrayLoop(IF name # << >> /\ name[1] = 91 THEN name[2] ELSE 76,
                                    0, size.v),
                      Pop, lg)
  \/ /\ ctl.op = "dump_array_elements"
     /\ \E ext \in Feed(IF ctl.i < ctl.size /\ ctl.element_type \in {66, 73, 74, 90}
                        THEN PrimitiveChunks(ctl.element_type) ELSE {}) :
          LET d == data \o ext
              r == ReadPrimitive(d, pos, ctl.element_type)
              silent == dump_content_silent(d, pos, next_handle)
              next == DumpArrayLoop(ctl.element_type, ctl.i + 1, ctl.size)
          IN  IF ctl.i >= ctl.size THEN Move(data, pos, Return(PyNone), stack)
              ELSE IF ctl.element_type \in {66, 73, 74, 90}
              THEN IF ~r.ok THEN Raise(d, r.p, Short) ELSE Move(d, r.p, next, stack)
              ELSE IF ctl.i < 10
              THEN Move(d, pos, Call("dump_content"),
                        Push([k |-> "dump_array_element", element_type |-> ctl.element_type,
                              i |-> ctl.i, size |-> ctl.size]))
              ELSE IF ~silent.ok
              THEN Go(d, silent.p, silent.nh, handles, heap, Short, stack, log)
              ELSE Lenient(silent.short, d, silent.p, silent.nh, handles, heap, next, stack,
                           log)
  \/ /\ ctl.op = "return"
     /\ Top.k = "dump_array_element"
     /\ Move(data, pos, DumpArrayLoop(Top.element_type, Top.i + 1, Top.size), Pop)

\* dump_new_enum(): the handle and the entry in the table, then the
\* constant's name
DumpNewEnum ==
  \/ /\ ctl.op = "dump_new_enum"
     /\ Move(data, pos, Call("dump_classdesc"), Push([k |-> "dump_new_enum"]))
  \/ /\ ctl.op = "return"
     /\ Top.k = "dump_new_enum"
     /\ Go(data, pos, new_handle(next_handle),
           register_handle(handles, next_handle, Tagged("Enum", heap, ctl.val)), heap,
           Call("dump_content"), ReplaceTop([k |-> "dump_enum_constant"]),
           Append(log, Alloc("enum")))
  \/ /\ ctl.op = "return"
     /\ Top.k = "dump_enum_constant"
     /\ Move(data, pos, Return(PyNone), Pop)

(***************************************************************************)
(* JavaObjectOutputStream.  A session is the record st: the buffer, the    *)
(* handle counter and the three tables, and err, the exception that ended  *)
(* the session ("" while none has).  allocs and refs are history: what     *)
(* each handle was taken for and when, and where each TC_REFERENCE was     *)
(* written.                                                                *)
(***************************************************************************)
N_HashMap == <<106, 97, 118, 97, 46, 117, 116, 105, 108, 46, 72, 97, 115, 104, 77, 97, 112>>
N_AbstractMap == <<106, 97, 118, 97, 46, 117, 116, 105, 108, 46, 65, 98, 115, 116, 114, 97, 99, 116, 77, 97, 112>>
N_ArrayList == <<106, 97, 118, 97, 46, 117, 116, 105, 108, 46, 65, 114, 114, 97, 121, 76, 105, 115, 116>>
N_AbstractList == <<106, 97, 118, 97, 46, 117, 116, 105, 108, 46, 65, 98, 115, 116, 114, 97, 99, 116, 76, 105, 115, 116>>
N_AbstractCollection == <<106, 97, 118, 97, 46, 117, 116, 105, 108, 46, 65, 98, 115, 116, 114, 97, 99, 116, 67, 111, 108, 108, 101, 99, 116, 105, 111, 110>>
F_loadFactor == <<108, 111, 97, 100, 70, 97, 99, 116, 111, 114>>
F_threshold == <<116, 104, 114, 101, 115, 104, 111, 108, 100>>
F_size == <<115, 105, 122, 101>>
T_Object == <<76, 106, 97, 118, 97, 47, 108, 97, 110, 103, 47, 79, 98, 106, 101, 99, 116, 59>>

UID_HashMap == <<5, 7, 218, 193, 195, 22, 96, 209>>
UID_AbstractMap == <<67, 3, 57, 183, 36, 251, 121, 73>>
UID_ArrayList == <<120, 129, 210, 29, 153, 199, 97, 157>>
UID_AbstractList == <<56, 170, 209, 188, 59, 106, 168, 115>>
UID_AbstractCollection == <<123, 222, 221, 175, 73, 221, 83, 154>>

\* the arguments of write_class_desc(); super_class is one more of them or None
ClassSpec(nm, uid, fl, fields, super) ==
  [k |-> "class", class_name |-> nm, serial_uid |-> uid, flags |-> fl, fields |-> fields,
   super_class |-> super]

HashMapClass ==
  ClassSpec(N_HashMap, UID_HashMap, SC_SERIALIZABLE + SC_WRITE_METHOD,
            << <<70, F_loadFactor>>, <<73, F_threshold>> >>,
            ClassSpec(N_AbstractMap, UID_AbstractMap, SC_SERIALIZABLE, << >>, PyNone))

ArrayListClass ==
  ClassSpec(N_ArrayList, UID_ArrayList, SC_SERIALIZABLE + SC_WRITE_METHOD,
            << <<73, F_size>> >>,
            ClassSpec(N_AbstractList, UID_AbstractList, SC_SERIALIZABLE, << >>,
                      ClassSpec(N_AbstractCollection, UID_AbstractCollection,
                                SC_SERIALIZABLE, << >>, PyNone)))

\* JavaObjectOutputStream(): the header is written at once
NewStream ==
  [buffer |-> <<STREAM_MAGIC_HI, STREAM_MAGIC_LO>> \o PackU16(STREAM_VERSION),
   handle_counter |-> BASE_WIRE_HANDLE,
   object_handles |-> EmptyMap, class_handles |-> EmptyMap, string_handles |-> EmptyMap,
   err |-> "", allocs |-> << >>, refs |-> << >>]

\* the statements of a method run one after the other: the sessions after
\* each of them in turn, of which the last is the method's
Last(steps) == steps[Len(steps)]

\* raise
Fail(st, e) == IF st.err # "" THEN st ELSE [st EXCEPT !.err = e]

\* self.buffer.write(bytes)
Write(st, bytes) == IF st.err # "" THEN st ELSE [st EXCEPT !.buffer = @ \o bytes]

\* a _next_handle() that gives the counter's value and leaves the counter
TakeHandleUncounted(st, kind, key) ==
  IF st.err # "" THEN st
  ELSE [st EXCEPT !.allocs = Append(@, [h |-> st.handle_counter, kind |-> kind, key |-> key,
                                        at |-> Len(st.buffer)])]

\* _next_handle(), for the entity named by kind and key; at is how much
\* of the stream was written when the handle was taken
TakeHandle(st, kind, key) ==
  IF st.err # "" THEN st
  ELSE [st EXCEPT !.handle_counter = @ + 1,
                  !.allocs = Append(@, [h |-> st.handle_counter, kind |-> kind, key |-> key,
                                        at |-> Len(st.buffer)])]

\* str.encode('utf-8') refuses the surrogates
Encodable(s) == \A i \in 1..Len(s) : s[i] < 55296 \/ s[i] > 57343

write_utf(st, s) ==
  IF ~Encodable(s) THEN Fail(st, "UnicodeEncodeError")
  ELSE IF Len(EncodeStr(s)) > 65535 THEN Fail(st, "struct.error")
  ELSE Write(st, PackU16(Len(EncodeStr(s))) \o EncodeStr(s))

write_null(st) == Write(st, <<TC_NULL>>)

write_reference(st, handle) ==
  IF st.err # "" THEN st
  ELSE [Write(st, <<TC_REFERENCE>> \o PackI32(handle))
          EXCEPT !.refs = Append(@, [at |-> Len(st.buffer), handle |-> handle])]

\* write_string() that takes no handle for the text it writes
write_string_unnumbered(st, s) ==
  IF st.err # "" THEN st
  ELSE IF s \in DOMAIN st.string_handles
  THEN write_reference(st, st.string_handles[s])
  ELSE write_utf([Write(st, <<TC_STRING>>)
                    EXCEPT !.string_handles = Put(@, s, st.handle_counter)], s)

\* write_string() that looks no text up
write_string_always(st, s) ==
  IF st.err # "" THEN st
  ELSE LET handle == st.handle_counter
           s1 == TakeHandle(Write(st, <<TC_STRING>>), "string", s)
           s2 == [s1 EXCEPT !.string_handles = Put(@, s, handle)]
       IN  write_utf(s2, s)

\* write_string(): a text written before in the session is a reference
write_string(st, s) ==
  IF st.err # "" THEN st
  ELSE IF s \in DOMAIN st.string_handles
  THEN write_reference(st, st.string_handles[s])
  ELSE LET handle == st.handle_counter
           s1 == TakeHandle(Write(st, <<TC_STRING>>), "string", s)
           s2 == [s1 EXCEPT !.string_handles = Put(@, s, handle)]
       IN  write_utf(s2, s)

\* the rows of a field table, in order (the first half of them, then the
\* second); the type of an 'L' or '[' row is a string
RECURSIVE WriteFields(_, _)
WriteFields(st, fields) ==
  IF fields = << >> \/ st.err # "" THEN st
  ELSE IF Len(fields) = 1
  THEN LET f == fields[1]
           TypeString(s1) ==
             IF f[1] \in {76, 91}
             THEN write_string(s1, IF Len(f) > 2 THEN f[3] ELSE T_Object)
             ELSE s1
       IN  TypeString(write_utf(Write(st, <<f[1]>>), f[2]))
  ELSE LET half == Len(fields) \div 2
       IN  WriteFields(WriteFields(st, SubSeq(fields, 1, half)),
                       SubSeq(fields, half + 1, Len(fields)))

\* write_class_desc(): a class name written before in the session is a
\* reference (skip_if_exists, which no caller sets, is True); otherwise the
\* descriptor, TC_ENDBLOCKDATA, and the super class or TC_NULL
\* a write_class_desc() that leaves the class annotations of the descriptor
\* unclosed
RECURSIVE write_class_desc_open(_, _)
write_class_desc_open(st, c) ==
  IF st.err # "" THEN st
  ELSE IF c.class_name \in DOMAIN st.class_handles
  THEN write_reference(st, st.class_handles[c.class_name])
  ELSE LET handle == st.handle_counter
           s1 == Write(write_utf(Write(st, <<TC_CLASSDESC>>), c.class_name), c.serial_uid)
           s2 == TakeHandle(s1, "class", c.class_name)
           s3 == IF s2.err # "" THEN s2
                 ELSE [s2 EXCEPT !.class_handles = Put(@, c.class_name, handle)]
           s4 == WriteFields(Write(s3, <<c.flags % 256>> \o PackU16(Len(c.fields))),
                             c.fields)
       IN  IF c.super_class.k = "class" THEN write_class_desc_open(s4, c.super_class)
           ELSE write_null(s4)

RECURSIVE write_class_desc(_, _)
write_class_desc(st, c) ==
  IF st.err # "" THEN st
  ELSE IF c.class_name \in DOMAIN st.class_handles
  THEN write_reference(st, st.class_handles[c.class_name])
  ELSE LET handle == st.handle_counter
           Register(s2) ==
             IF s2.err # "" THEN s2
             ELSE [s2 EXCEPT !.class_handles = Put(@, c.class_name, handle)]
           Super(s5) ==
             IF c.super_class.k = "class" THEN write_class_desc(s5, c.super_class)
             ELSE write_null(s5)
           s1 == Write(write_utf(Write(st, <<TC_CLASSDESC>>), c.class_name), c.serial_uid)
           s3 == Register(TakeHandle(s1, "class", c.class_name))
           s4 == Write(s3, <<c.flags % 256>> \o PackU16(Len(c.fields)))
       IN  Super(Write(WriteFields(Last(<<s1, s3, s4>>), c.fields), <<TC_ENDBLOCKDATA>>))

\* the capacity left at what it starts with
CapacityKept(capacity, size) == capacity

\* capacity = 16; while capacity * 0.75 < size: capacity *= 2
RECURSIVE Capacity(_, _)
Capacity(capacity, size) ==
  IF capacity * 3 < size * 4 THEN Capacity(capacity * 2, size) ELSE capacity

\* int(capacity * 0.75)
Threshold(capacity) == (capacity * 3) \div 4

LoadFactor == <<63, 64, 0, 0>>

RECURSIVE write_object(_, _, _), write_hashmap(_, _, _), write_arraylist(_, _, _)
RECURSIVE WriteEntries(_, _, _), WriteElements(_, _, _)

\* for key, value in data.items(): write_object(key); write_object(value)
WriteEntries(G, st, items) ==
  IF items = << >> THEN st
  ELSE IF st.err # "" THEN st
  ELSE WriteEntries(G, write_object(G, write_object(G, st, Head(items).key),
                                    Head(items).value),
                    Tail(items))

\* for item in data: write_object(item)
WriteElements(G, st, items) ==
  IF items = << >> THEN st
  ELSE IF st.err # "" THEN st
  ELSE WriteElements(G, write_object(G, st, Head(items)), Tail(items))

\* write_hashmap(): a dict written before in the session (by id) is a
\* reference
write_hashmap(G, st, id) ==
  IF st.err # "" THEN st
  ELSE IF id \in DOMAIN st.object_handles
  THEN write_reference(st, st.object_handles[id])
  ELSE LET size == Len(G[id].items)
           capacity == Capacity(16, size)
           Register(s2, handle) ==
             IF s2.err # "" THEN s2
             ELSE [s2 EXCEPT !.object_handles = Put(@, id, handle)]
           Data(s1) ==
             LET s3 == Register(TakeHandle(s1, "object", HashMapClass.class_name),
                                s1.handle_counter)
                 s4 == Write(s3, LoadFactor \o PackI32(Threshold(capacity)))
                 s5 == Write(s4, <<TC_BLOCKDATA, 8>> \o PackI32(capacity) \o PackI32(size))
             IN  Write(WriteEntries(G, Last(<<s3, s4, s5>>), G[id].items),
                       <<TC_ENDBLOCKDATA>>)
       IN  Data(write_class_desc(Write(st, <<TC_OBJECT>>), HashMapClass))

\* write_arraylist(): likewise for a list
write_arraylist(G, st, id) ==
  IF st.err # "" THEN st
  ELSE IF id \in DOMAIN st.object_handles
  THEN write_reference(st, st.object_handles[id])
  ELSE LET size == Len(G[id].items)
           Register(s2, handle) ==
             IF s2.err # "" THEN s2
             ELSE [s2 EXCEPT !.object_handles = Put(@, id, handle)]
           Data(s1) ==
             LET s3 == Register(TakeHandle(s1, "object", ArrayListClass.class_name),
                                s1.handle_counter)
                 s4 == Write(s3, PackI32(size))
                 s5 == Write(s4, <<TC_BLOCKDATA, 4>> \o PackI32(size))
             IN  Write(WriteElements(G, Last(<<s3, s4, s5>>), G[id].items),
                       <<TC_ENDBLOCKDATA>>)
       IN  Data(write_class_desc(Write(st, <<TC_OBJECT>>), ArrayListClass))

\* write_object(): None, str, dict and list are written; bool, int, float
\* and everything else raise ValueError
write_object(G, st, obj) ==
  IF st.err # "" THEN st
  ELSE IF IsNone(obj) THEN write_null(st)
  ELSE IF obj.k = "str" THEN write_string(st, obj.s)
  ELSE IF obj.k \in {"bool", "int", "float"} THEN Fail(st, "ValueError")
  ELSE IF obj.k = "node" /\ G[obj.id].t = "dict" THEN write_hashmap(G, st, obj.id)
  ELSE IF obj.k = "node" /\ G[obj.id].t = "list" THEN write_arraylist(G, st, obj.id)
  ELSE Fail(st, "ValueError")

(***************************************************************************)
(* BWNScriptBuilder.  build() writes the script into one encoder session   *)
(* with the session's own methods and with bytes and handles of its own.   *)
(***************************************************************************)
CopyOnWriteArrayListClass ==
  ClassSpec(\* java.util.concurrent.CopyOnWriteArrayList
            <<106, 97, 118, 97, 46, 117, 116, 105, 108, 46, 99, 111, 110, 99, 117, 114, 114,
            101, 110, 116, 46, 67, 111, 112, 121, 79, 110, 87, 114, 105, 116, 101, 65, 114,
            114, 97, 121, 76, 105, 115, 116>>,
            <<120, 93, 159, 213, 70, 171, 144, 195>>, SC_SERIALIZABLE + SC_WRITE_METHOD,
            << >>,
            PyNone)

SynchronizedMapClass ==
  ClassSpec(\* java.util.Collections$SynchronizedMap
            <<106, 97, 118, 97, 46, 117, 116, 105, 108, 46, 67, 111, 108, 108, 101, 99, 116,
            105, 111, 110, 115, 36, 83, 121, 110, 99, 104, 114, 111, 110, 105, 122, 101, 100,
            77, 97, 112>>,
            <<27, 115, 249, 9, 75, 75, 57, 123>>, SC_SERIALIZABLE,
            << <<76, <<109>>,
                 <<76, 106, 97, 118, 97, 47, 117, 116, 105, 108, 47, 77, 97, 112, 59>>>>,
                 <<76, <<109, 117, 116, 101, 120>>,
                 <<76, 106, 97, 118, 97, 47, 108, 97, 110, 103, 47, 79, 98, 106, 101, 99,
                 116, 59>>>> >>,
            PyNone)

SynchronizedCollectionClass ==
  ClassSpec(\* java.util.Collections$SynchronizedCollection
            <<106, 97, 118, 97, 46, 117, 116, 105, 108, 46, 67, 111, 108, 108, 101, 99, 116,
            105, 111, 110, 115, 36, 83, 121, 110, 99, 104, 114, 111, 110, 105, 122, 101, 100,
            67, 111, 108, 108, 101, 99, 116, 105, 111, 110>>,
            <<42, 97, 248, 77, 9, 156, 153, 181>>, SC_SERIALIZABLE,
            << <<76, <<99>>,
                 <<76, 106, 97, 118, 97, 47, 117, 116, 105, 108, 47, 67, 111, 108, 108, 101,
                 99, 116, 105, 111, 110, 59>>>>,
                 <<76, <<109, 117, 116, 101, 120>>,
                 <<76, 106, 97, 118, 97, 47, 108, 97, 110, 103, 47, 79, 98, 106, 101, 99,
                 116, 59>>>> >>,
            PyNone)

SynchronizedListClass ==
  ClassSpec(\* java.util.Collections$SynchronizedList
            <<106, 97, 118, 97, 46, 117, 116, 105, 108, 46, 67, 111, 108, 108, 101, 99, 116,
            105, 111, 110, 115, 36, 83, 121, 110, 99, 104, 114, 111, 110, 105, 122, 101, 100,
            76, 105, 115, 116>>,
            <<235, 143, 174, 78, 234, 88, 95, 197>>, SC_SERIALIZABLE,
            << <<76, <<108, 105, 115, 116>>,
                 <<76, 106, 97, 118, 97, 47, 117, 116, 105, 108, 47, 76, 105, 115, 116, 59>>>> >>,
            SynchronizedCollectionClass)

ArgumentClass ==
  ClassSpec(\* com.asirrera.brownie.ide.command.Argument
            <<99, 111, 109, 46, 97, 115, 105, 114, 114, 101, 114, 97, 46, 98, 114, 111, 119,
            110, 105, 101, 46, 105, 100, 101, 46, 99, 111, 109, 109, 97, 110, 100, 46, 65,
            114, 103, 117, 109, 101, 110, 116>>,
            <<141, 149, 167, 187, 195, 86, 72, 213>>, SC_SERIALIZABLE,
            << <<76, <<111, 98, 106, 101, 99, 116>>,
                 <<76, 106, 97, 118, 97, 47, 108, 97, 110, 103, 47, 79, 98, 106, 101, 99,
                 116, 59>>>>,
                 <<76, <<115, 111, 117, 114, 99, 101, 67, 111, 100, 101>>,
                 <<76, 106, 97, 118, 97, 47, 108, 97, 110, 103, 47, 83, 116, 114, 105, 110,
                 103, 59>>>> >>,
            PyNone)

BrownieCommandClass ==
  ClassSpec(\* com.asirrera.brownie.ide.command.BrownieCommand
            <<99, 111, 109, 46, 97, 115, 105, 114, 114, 101, 114, 97, 46, 98, 114, 111, 119,
            110, 105, 101, 46, 105, 100, 101, 46, 99, 111, 109, 109, 97, 110, 100, 46, 66,
            114, 111, 119, 110, 105, 101, 67, 111, 109, 109, 97, 110, 100>>,
            <<255, 255, 255, 255, 231, 50, 253, 64>>, SC_SERIALIZABLE,
            << <<90, <<101, 110, 97, 98, 108, 101, 100>>>>,
                 <<90, <<105, 115, 65, 100, 100, 84, 97, 98, 108, 101, 67, 111, 109, 109, 97,
                       110, 100, 73, 99, 111, 110, 83, 101, 108, 101, 99, 116, 101, 100>>>>,
                 <<90, <<105, 115, 67, 104, 97, 110, 103, 101, 87, 97, 105, 116, 84, 105,
                       109, 101>>>>,
                 <<68, <<112, 114, 105, 118, 97, 116, 101, 87, 97, 105, 116, 84, 105, 109,
                       101, 83, 101, 99, 111, 110, 100>>>>,
                 <<76, <<97, 114, 103, 117, 109, 101, 110, 116, 115>>,
                 <<76, 99, 111, 109, 47, 97, 115, 105, 114, 114, 101, 114, 97, 47, 98, 114,
                 111, 119, 110, 105, 101, 47, 105, 100, 101, 47, 99, 111, 109, 109, 97, 110,
                 100, 47, 65, 114, 103, 117, 109, 101, 110, 116, 115, 59>>>>,
                 <<76, <<102, 105, 110, 100, 77, 111, 100, 101, 108, 79, 102, 79, 112, 116,
                       105, 111, 110>>,
                 <<76, 99, 111, 109, 47, 97, 115, 105, 114, 114, 101, 114, 97, 47, 98, 114,
                 111, 119, 110, 105, 101, 47, 105, 100, 101, 47, 99, 111, 109, 109, 97, 110,
                 100, 47, 111, 112, 116, 105, 111, 110, 47, 109, 111, 100, 101, 108, 47, 70,
                 105, 110, 100, 79, 112, 116, 105, 111, 110, 77, 111, 100, 101, 108, 59>>>>,
                 <<76, <<109, 101, 116, 97, 100, 97, 116, 97>>,
                 <<76, 106, 97, 118, 97, 47, 117, 116, 105, 108, 47, 72, 97, 115, 104, 77,
                 97, 112, 59>>>>,
                 <<76, <<111, 98, 106, 101, 99, 116>>,
                 <<76, 106, 97, 118, 97, 47, 108, 97, 110, 103, 47, 79, 98, 106, 101, 99,
                 116, 59>>>>,
                 <<76, <<114, 101, 116, 114, 121, 73, 102>>,
                 <<76, 99, 111, 109, 47, 97, 115, 105, 114, 114, 101, 114, 97, 47, 98, 114,
                 111, 119, 110, 105, 101, 47, 105, 100, 101, 47, 99, 111, 109, 109, 97, 110,
                 100, 47, 82, 101, 116, 114, 121, 73, 102, 59>>>> >>,
            ArgumentClass)

FlowCommandClass ==
  ClassSpec(\* com.asirrera.brownie.ide.command.FlowCommand
            <<99, 111, 109, 46, 97, 115, 105, 114, 114, 101, 114, 97, 46, 98, 114, 111, 119,
            110, 105, 101, 46, 105, 100, 101, 46, 99, 111, 109, 109, 97, 110, 100, 46, 70,
            108, 111, 119, 67, 111, 109, 109, 97, 110, 100>>,
            <<0, 0, 0, 0, 0, 0, 0, 1>>, SC_SERIALIZABLE,
            << <<90, <<105, 115, 82, 101, 116, 114, 105, 97, 98, 108, 101>>>>,
                 <<76, <<99, 111, 109, 109, 101, 110, 116>>,
                 <<76, 106, 97, 118, 97, 47, 108, 97, 110, 103, 47, 83, 116, 114, 105, 110,
                 103, 59>>>> >>,
            BrownieCommandClass)

CommentClass ==
  ClassSpec(\* com.asirrera.brownie.ide.command.Comment
            <<99, 111, 109, 46, 97, 115, 105, 114, 114, 101, 114, 97, 46, 98, 114, 111, 119,
            110, 105, 101, 46, 105, 100, 101, 46, 99, 111, 109, 109, 97, 110, 100, 46, 67,
            111, 109, 109, 101, 110, 116>>,
            <<0, 0, 0, 0, 0, 0, 0, 1>>, SC_SERIALIZABLE,
            << >>,
            FlowCommandClass)

\* the keys of the maps of a script
K_projectName == <<112, 114, 111, 106, 101, 99, 116, 78, 97, 109, 101>>
K_scriptData == <<115, 99, 114, 105, 112, 116, 68, 97, 116, 97>>
K_MergeInfoData == <<77, 101, 114, 103, 101, 73, 110, 102, 111, 68, 97, 116, 97>>
K_tabTitle == <<116, 97, 98, 84, 105, 116, 108, 101>>
K_commandData == <<99, 111, 109, 109, 97, 110, 100, 68, 97, 116, 97>>

\* the commands of a tab, each written as a Comment
RECURSIVE WriteCommands(_, _)

\* a _write_comment_command() that writes the fields of the classes from
\* the object's own class up to the root-most superclass
_write_comment_command_leaf_first(st, comment_text) ==
  IF st.err # "" THEN st ELSE
  LET Data(s1) ==
        LET s2 == TakeHandle(s1, "object", CommentClass.class_name)
            s3 == write_string(Write(s2, <<0>>), comment_text)
            s4 == Write(s3, <<1, 0, 0>> \o <<0, 0, 0, 0, 0, 0, 0, 0>>)
            s5 == write_null(write_null(write_null(write_null(write_null(s4)))))
        IN  write_null(write_null(s5))
  IN  Data(write_class_desc(Write(st, <<TC_OBJECT>>), CommentClass))

\* _write_comment_command(): the object's handle, then the fields of
\* Argument, BrownieCommand and FlowCommand in that order
_write_comment_command(st, comment_text) ==
  IF st.err # "" THEN st ELSE
  LET Data(s1) ==
        LET s2 == TakeHandle(s1, "object", CommentClass.class_name)
            s3 == write_null(write_null(s2))
            s4 == Write(s3, <<1, 0, 0>> \o <<0, 0, 0, 0, 0, 0, 0, 0>>)
            s5 == write_null(write_null(write_null(write_null(write_null(s4)))))
            s6 == Write(s5, <<0>>)
        IN  write_string(Last(<<s2, s3, s4, s5, s6>>), comment_text)
  IN  Data(write_class_desc(Write(st, <<TC_OBJECT>>), CommentClass))

WriteCommands(st, commands) ==
  IF commands = << >> THEN st
  ELSE IF st.err # "" THEN st
  ELSE WriteCommands(_write_comment_command(st, Head(commands)), Tail(commands))

\* _write_command_arraylist(): [st, handle], the session after and the
\* handle of the ArrayList
_write_command_arraylist(st, commands) ==
  IF st.err # "" THEN [st |-> st, handle |-> st.handle_counter] ELSE
  LET Data(s1) ==
        LET s2 == TakeHandle(s1, "object", ArrayListClass.class_name)
            s3 == Write(s2, PackI32(Len(commands)))
            s4 == Write(s3, <<TC_BLOCKDATA, 4>> \o PackI32(Len(commands)))
        IN  [st |-> Write(WriteCommands(Last(<<s2, s3, s4>>), commands),
                          <<TC_ENDBLOCKDATA>>),
             handle |-> s1.handle_counter]
  IN  Data(write_class_desc(Write(st, <<TC_OBJECT>>), ArrayListClass))

\* _write_command_data(): the SynchronizedList; c is the ArrayList, mutex
\* the tab's SynchronizedMap, list the ArrayList again
_write_command_data(st, commands, sync_handle) ==
  IF st.err # "" THEN st ELSE
  LET Mutex(inner) ==
        write_reference(write_reference(inner.st, sync_handle), inner.handle)
      s1 == write_class_desc(Write(st, <<TC_OBJECT>>), SynchronizedListClass)
      s2 == TakeHandle(s1, "object", SynchronizedListClass.class_name)
  IN  Mutex(_write_command_arraylist(s2, commands))

\* _write_tab_hashmap(): the HashMap of a tab with its three entries.  The
\* empty list given to write_arraylist() lives for the call only; address
\* is the id() the interpreter gives it, G[address] the list.
_write_tab_hashmap(G, st, tab, address, sync_handle) ==
  IF st.err # "" THEN st ELSE
  LET Title(s6) ==
        LET s7 == write_string(write_string(s6, K_tabTitle), tab.tabTitle)
        IN  Last(<<s7, write_string(s7, K_commandData)>>)
      Data(s1) ==
        LET s2 == TakeHandle(s1, "object", HashMapClass.class_name)
            s3 == Write(s2, LoadFactor \o PackI32(12))
            s4 == Write(s3, <<TC_BLOCKDATA, 8>> \o PackI32(16) \o PackI32(3))
        IN  Last(<<s2, s3, s4, write_string(s4, K_MergeInfoData)>>)
  IN  Write(_write_command_data(
              Title(write_arraylist(
                      G, Data(write_class_desc(Write(st, <<TC_OBJECT>>), HashMapClass)),
                      address)),
              tab.commands, sync_handle),
            <<TC_ENDBLOCKDATA>>)

\* _write_tab(): the SynchronizedMap of a tab; m is the HashMap, mutex the
\* SynchronizedMap itself
_write_tab(G, st, tab, address) ==
  IF st.err # "" THEN st ELSE
  LET Data(s1, sync_handle) ==
        write_reference(
          _write_tab_hashmap(G, TakeHandle(s1, "object", SynchronizedMapClass.class_name),
                             tab, address, sync_handle),
          sync_handle)
      Map(s1) == Data(s1, s1.handle_counter)
  IN  Map(write_class_desc(Write(st, <<TC_OBJECT>>), SynchronizedMapClass))

\* for tab in tabs: self._write_tab(writer, tab)
RECURSIVE WriteTabs(_, _, _, _)
WriteTabs(G, st, tabs, addresses) ==
  IF tabs = << >> THEN st
  ELSE IF st.err # "" THEN st
  ELSE WriteTabs(G, _write_tab(G, st, Head(tabs), Head(addresses)),
                 Tail(tabs), Tail(addresses))

\* _write_script_data(): the CopyOnWriteArrayList of the tabs
_write_script_data(G, st, tabs, addresses) ==
  IF st.err # "" THEN st ELSE
  LET s1 == write_class_desc(Write(st, <<TC_OBJECT>>), CopyOnWriteArrayListClass)
      s2 == TakeHandle(s1, "object", CopyOnWriteArrayListClass.class_name)
      s3 == Write(s2, <<TC_BLOCKDATA, 4>> \o PackI32(Len(tabs)))
  IN  Write(WriteTabs(G, s3, tabs, addresses), <<TC_ENDBLOCKDATA>>)

\* _write_root(): the root HashMap with projectName and scriptData
_write_root(G, st, script) ==
  IF st.err # "" THEN st ELSE
  LET Data(s1) ==
        LET s2 == TakeHandle(s1, "object", HashMapClass.class_name)
            s3 == Write(s2, LoadFactor \o PackI32(12))
            s4 == Write(s3, <<TC_BLOCKDATA, 8>> \o PackI32(16) \o PackI32(2))
            s5 == write_string(write_string(s4, K_projectName), script.project_name)
        IN  Last(<<s2, s3, s4, s5, write_string(s5, K_scriptData)>>)
  IN  Write(_write_script_data(
              G, Data(write_class_desc(Write(st, <<TC_OBJECT>>), HashMapClass)),
              script.tabs, script.addresses),
            <<TC_ENDBLOCKDATA>>)

\* build(): a new session, the root, the bytes
build(G, script) == _write_root(G, NewStream, script)

(***************************************************************************)
(* BWNCompiler (src/bwn_compiler.py).  compile_to_bytes() writes the       *)
(* header and the root HashMap of a configuration byte by byte; it keeps   *)
(* no table and writes no reference.  b is the stream written so far.      *)
(***************************************************************************)
N_Break ==
  <<99, 111, 109, 46, 97, 115, 105, 114, 114, 101, 114, 97, 46, 98, 114, 111, 119, 110,
    105, 101, 46, 105, 100, 101, 46, 99, 111, 109, 109, 97, 110, 100, 46, 66, 114, 101,
    97, 107>>

\* COMMAND_CLASS_MAP.get(cmd_type, 'com.asirrera.brownie.ide.command.Comment')
COMMAND_CLASS_MAP(cmd_type) ==
  IF cmd_type = "break" THEN N_Break ELSE CommentClass.class_name

_write_string(b, value) == b \o <<TC_STRING>> \o Utf(EncodeStr(value))

\* the ArrayList of the steps: its descriptor, size, and for every step an
\* object that is its class descriptor alone
_write_command_list(b, steps) ==
  LET Command(step) ==
        <<TC_OBJECT, TC_CLASSDESC>> \o Utf(COMMAND_CLASS_MAP(step))
          \o <<0, 0, 0, 0, 0, 0, 0, 1>> \o <<SC_SERIALIZABLE>> \o PackU16(0)
          \o <<TC_ENDBLOCKDATA, TC_NULL>>
  IN  b \o <<TC_OBJECT, TC_CLASSDESC>> \o Utf(N_ArrayList) \o UID_ArrayList
        \o <<3>> \o PackU16(1) \o <<73>> \o Utf(F_size)
        \o <<TC_ENDBLOCKDATA, TC_NULL>>
        \o PackI32(Len(steps))
        \o <<TC_BLOCKDATA, 4>> \o PackI32(Len(steps))
        \o Cat([i \in 1..Len(steps) |-> Command(steps[i])])
        \o <<TC_ENDBLOCKDATA>>

\* the root HashMap: its descriptor, its fields, and the entries
\* projectName, tabTitle and commandData
_write_hashmap(b, config) ==
  LET b1 == b \o <<TC_OBJECT, TC_CLASSDESC>> \o Utf(N_HashMap) \o UID_HashMap
              \o <<3>> \o PackU16(2)
              \o <<70>> \o Utf(F_loadFactor) \o <<73>> \o Utf(F_threshold)
              \o <<TC_ENDBLOCKDATA, TC_NULL>>
              \o LoadFactor \o PackI32(12)
              \o <<TC_BLOCKDATA, 8>> \o PackI32(16) \o PackI32(3)
      b2 == _write_string(_write_string(b1, K_projectName), config.name)
      b3 == _write_string(_write_string(b2, K_tabTitle), config.tab_title)
  IN  _write_command_list(_write_string(b3, K_commandData), config.steps)
        \o <<TC_ENDBLOCKDATA>>

\* _write_stream() into a BytesIO
compile_to_bytes(config) ==
  _write_hashmap(<<STREAM_MAGIC_HI, STREAM_MAGIC_LO>> \o PackU16(STREAM_VERSION), config)

(***************************************************************************)
(* The sessions.  A session decodes a buffer with one of the two parser    *)
(* generations.  The buffer is either built piece by piece as the decoder  *)
(* advances, or it is what an encoder session wrote for a graph of dicts,  *)
(* lists and strings.  What the decoder returns is given to a new encoder  *)
(* session.                                                                *)
(***************************************************************************)
PyNode(id) == [k |-> "node", id |-> id]
PyDict(items) == [t |-> "dict", items |-> items]
PyList(items) == [t |-> "list", items |-> items]

SeqsUpTo(S, n) == UNION { [1..m -> S] : m \in 0..n }

\* the keys of a dict, in insertion order: "k", "a", "b", ...
Key(i) == PyStr(<<IF i = 1 THEN 107 ELSE 95 + i>>)
Entries(values) == [i \in 1..Len(values) |-> [key |-> Key(i), value |-> values[i]]]

Values == { PyNone, PyStr(<<97>>), PyNode(1), PyNode(2) }

Containers(S, n) ==
  { PyList(q) : q \in SeqsUpTo(S, n) } \cup { PyDict(Entries(q)) : q \in SeqsUpTo(S, n) }

Mentions(node, id) ==
  \E i \in 1..Len(node.items) :
    IF node.t = "dict" THEN node.items[i].value = PyNode(id) ELSE node.items[i] = PyNode(id)

\* a dict or a list of up to MaxItems values, with a second one if it
\* mentions it; a value that is no container; a list with an int in it
Graphs ==
  { [root |-> PyNode(1), nodes |-> <<n1>>] :
      n1 \in { n \in Containers(Values, MaxItems) : ~Mentions(n, 2) } }
    \cup { [root |-> PyNode(1), nodes |-> <<n1, n2>>] :
             n1 \in { n \in Containers(Values, MaxItems) : Mentions(n, 2) },
             n2 \in Containers(Values, 1) }
    \cup { [root |-> v, nodes |-> << >>] :
             v \in { PyNone, PyStr(<<97>>), PyStr(<<233>>), PyStr(<< >>), PyInt(1),
                     PyBool(TRUE), PyFloat(LoadFactor) } }
    \cup { [root |-> PyNode(1), nodes |-> << PyList(<<PyStr(<<97>>), PyInt(1)>>) >>],
           [root |-> PyNode(1),
            nodes |-> << PyDict(<<[key |-> PyInt(1), value |-> PyNone]>>) >>],
           [root |-> PyNode(1),
            nodes |-> << PyDict(<<[key |-> PyNone, value |-> PyStr(<<97>>)]>>) >>] }

NoGraph == [root |-> PyNone, nodes |-> << >>]

\* builder.add_tab(title, commands): the tabs of a script, each command a
\* dict with its comment
Tabs ==
  { [tabTitle |-> <<116>>, commands |-> c] :
      c \in SeqsUpTo({<<120>>}, MaxCommands) }

\* the id() of the empty list that _write_tab_hashmap() makes for each
\* tab: the interpreter may give every one the address of the one before,
\* which is free again by then, or addresses of their own
Addresses(n) == { [i \in 1..n |-> i], [i \in 1..n |-> 1] }

\* BWNScriptBuilder(project_name) with its tabs
Scripts ==
  UNION { { [root |-> [k |-> "script", project_name |-> nm, tabs |-> tabs,
                       addresses |-> ad],
             nodes |-> [i \in 1..Len(tabs) |-> PyList(<< >>)]] :
              nm \in {<<112>>, K_tabTitle}, ad \in Addresses(Len(tabs)) } :
          tabs \in SeqsUpTo(Tabs, MaxTabs) }

\* the configurations given to BWNCompiler: the project's name and tab
\* title (the second is the default title) and the commands of its steps
Configs ==
  { [root |-> [k |-> "config", name |-> <<112>>, tab_title |-> t, steps |-> q],
     nodes |-> << >>] :
      t \in { <<116>>, <<23455, 34892, 12479, 12502>> },
      q \in SeqsUpTo({"comment", "break"}, MaxCommands) }

\* no instance beside the session's
Alone == [k |-> "alone"]

Init ==
  /\ gen \in {"v1", "v2", "dump"}
  /\ fed = 0
  /\ pos = 0
  /\ handles = EmptyMap
  /\ next_handle = BASE_WIRE_HANDLE
  /\ heap = << >>
  /\ stack = << >>
  /\ log = << >>
  /\ enc = NewStream
  /\ reenc = NewStream
  /\ other = Alone
  /\ \/ /\ closed = FALSE
        /\ data \in Seeds
        /\ graph = NoGraph
        /\ ctl = Call(IF gen = "dump" THEN "dump" ELSE "parse")
     \/ /\ gen # "dump"
        /\ closed = TRUE
        /\ data = << >>
        /\ graph \in Graphs
        /\ ctl = Call("write_object")
     \/ /\ gen # "dump"
        /\ closed = TRUE
        /\ data = << >>
        /\ graph \in Scripts
        /\ ctl = Call("build")
     \/ /\ gen # "dump"
        /\ closed = TRUE
        /\ data = << >>
        /\ graph \in Configs
        /\ ctl = Call("compile_to_bytes")

\* writer = JavaObjectOutputStream(); writer.write_object(root)
WriteObject ==
  /\ ctl.op = "write_object"
  /\ enc' = write_object(graph.nodes, NewStream, graph.root)
  /\ ctl' = [op |-> "written"]
  /\ UNCHANGED << gen, data, closed, fed, pos, handles, next_handle, heap, stack, log,
                  graph, reenc, other >>

\* BWNScriptBuilder.build(): writer = JavaObjectOutputStream(); _write_root()
Build ==
  /\ ctl.op = "build"
  /\ enc' = build(graph.nodes, graph.root)
  /\ ctl' = [op |-> "written"]
  /\ UNCHANGED << gen, data, closed, fed, pos, handles, next_handle, heap, stack, log,
                  graph, reenc, other >>

\* get_bytes(): self.buffer.getvalue()
get_bytes(st) == st.buffer

\* JavaSerializationParser(writer.get_bytes()).parse()
GetBytes ==
  /\ ctl.op = "written"
  /\ enc.err = ""
  /\ data' = get_bytes(enc)
  /\ ctl' = Call("parse")
  /\ UNCHANGED << gen, closed, fed, pos, handles, next_handle, heap, stack, log,
                  graph, enc, reenc, other >>

\* JavaSerializationParser(BWNCompiler(yaml_content).compile_to_bytes()).parse()
CompileToBytes ==
  /\ ctl.op = "compile_to_bytes"
  /\ data' = compile_to_bytes(graph.root)
  /\ ctl' = Call("parse")
  /\ UNCHANGED << gen, closed, fed, pos, handles, next_handle, heap, stack, log,
                  graph, enc, reenc, other >>

\* JavaObjectOutputStream().write_object(result), for what parse() returned
ReEncode ==
  /\ ctl.op = "done"
  /\ reenc' = write_object(<< >>, NewStream, ctl.result)
  /\ ctl' = [op |-> "reencoded", result |-> ctl.result]
  /\ UNCHANGED << gen, data, closed, fed, pos, handles, next_handle, heap, stack, log,
                  graph, enc, other >>

Next ==
  \/ WriteObject
  \/ Build
  \/ GetBytes
  \/ CompileToBytes
  \/ ReEncode
  \/ Parse
  \/ ParseReturn
  \/ ReadContent
  \/ ReadNewString
  \/ ReadNewLongString
  \/ ReadPrevObject
  \/ ReadBlockData
  \/ ReadBlockDataLong
  \/ ReadClassDesc
  \/ ReadNewClassDesc
  \/ ReadFieldDesc
  \/ ReadClassAnnotations
  \/ ClassAnnotationContent
  \/ SuperClassDesc
  \/ ReadNewProxyClassDesc
  \/ ReadNewObject
  \/ NewObjectClassDesc
  \/ ReadObjectData
  \/ FieldValueContent
  \/ ReadObjectAnnotations
  \/ ObjectAnnotationContent
  \/ ReadNewArray
  \/ NewArrayClassDesc
  \/ ReadArrayElement
  \/ ArrayElementContent
  \/ ReadNewEnum
  \/ NewEnumClassDesc
  \/ EnumConstantContent
  \/ ReadNewClass
  \/ NewClassClassDesc
  \/ Dump
  \/ DumpContent
  \/ DumpNewString
  \/ DumpClassdesc
  \/ DumpNewClassdesc
  \/ DumpNewObject
  \/ DumpNewArray
  \/ DumpNewEnum

Spec == Init /\ [][Next]_vars

(***************************************************************************)
(* Two sessions side by side.  Two parser instances, each on a buffer of   *)
(* its own, take their steps in any order: the variables of the session    *)
(* hold the instance that runs, other.parked the instance that waits.  Two *)
(* JavaObjectOutputStream instances, enc and reenc, are given values by    *)
(* calls that fall anywhere between those steps.                           *)
(***************************************************************************)
MaxCalls == 1

\* the graphs whose encodings the two parsers are given
PairGraphs ==
  { [root |-> PyStr(<<97>>), nodes |-> << >>],
    [root |-> PyNode(1), nodes |-> << PyList(<<PyStr(<<97>>), PyStr(<<97>>)>>) >>] }

\* the values the two encoders are given
PairValues == { PyStr(<<97>>), PyNone }

\* JavaSerializationParser(data): the fields __init__ sets
NewParser(g, d) ==
  [gen |-> g, data |-> d, fed |-> 0, pos |-> 0, handles |-> EmptyMap,
   next_handle |-> BASE_WIRE_HANDLE, heap |-> << >>, ctl |-> Call("parse"),
   stack |-> << >>, log |-> << >>]

\* the fields of the instance that runs
RunningInstance ==
  [gen |-> gen, data |-> data, fed |-> fed, pos |-> pos, handles |-> handles,
   next_handle |-> next_handle, heap |-> heap, ctl |-> ctl, stack |-> stack,
   log |-> log]

InitPair ==
  \E g1, g2 \in {"v1", "v2"} : \E G1, G2 \in PairGraphs :
    /\ gen = g1
    /\ data = get_bytes(write_object(G1.nodes, NewStream, G1.root))
    /\ closed = TRUE
    /\ fed = 0
    /\ pos = 0
    /\ handles = EmptyMap
    /\ next_handle = BASE_WIRE_HANDLE
    /\ heap = << >>
    /\ ctl = Call("parse")
    /\ stack = << >>
    /\ log = << >>
    /\ graph = NoGraph
    /\ enc = NewStream
    /\ reenc = NewStream
    /\ other = [k |-> "pair", runs |-> 1,
                parked |-> NewParser(g2, get_bytes(write_object(G2.nodes, NewStream,
                                                                G2.root))),
                calls |-> << << >>, << >> >>]

\* the same with next_handle and handles held by the class, one counter and
\* one table for both instances
SwitchSharedHandles ==
  /\ gen' = other.parked.gen
  /\ data' = other.parked.data
  /\ fed' = other.parked.fed
  /\ pos' = other.parked.pos
  /\ heap' = other.parked.heap
  /\ ctl' = other.parked.ctl
  /\ stack' = other.parked.stack
  /\ log' = other.parked.log
  /\ other' = [other EXCEPT !.parked = RunningInstance, !.runs = 3 - @]
  /\ UNCHANGED << handles, next_handle, closed, graph, enc, reenc >>

\* the instance that waits takes the next step: every field of an instance
\* is its own
Switch ==
  /\ gen' = other.parked.gen
  /\ data' = other.parked.data
  /\ fed' = other.parked.fed
  /\ pos' = other.parked.pos
  /\ handles' = other.parked.handles
  /\ next_handle' = other.parked.next_handle
  /\ heap' = other.parked.heap
  /\ ctl' = other.parked.ctl
  /\ stack' = other.parked.stack
  /\ log' = other.parked.log
  /\ other' = [other EXCEPT !.parked = RunningInstance, !.runs = 3 - @]
  /\ UNCHANGED << closed, graph, enc, reenc >>

\* write_object(value) on the first encoder
WriteFirst ==
  /\ Len(other.calls[1]) < MaxCalls
  /\ \E value \in PairValues :
       /\ enc' = write_object(<< >>, enc, value)
       /\ other' = [other EXCEPT !.calls[1] = Append(@, value)]
  /\ UNCHANGED << gen, data, closed, fed, pos, handles, next_handle, heap, ctl, stack, log,
                  graph, reenc >>

\* write_object(value) on the second encoder
WriteSecond ==
  /\ Len(other.calls[2]) < MaxCalls
  /\ \E value \in PairValues :
       /\ reenc' = write_object(<< >>, reenc, value)
       /\ other' = [other EXCEPT !.calls[2] = Append(@, value)]
  /\ UNCHANGED << gen, data, closed, fed, pos, handles, next_handle, heap, ctl, stack, log,
                  graph, enc >>

NextPair ==
  \/ Switch
  \/ WriteFirst
  \/ WriteSecond
  \/ Parse
  \/ ParseReturn
  \/ ReadContent
  \/ ReadNewString
  \/ ReadPrevObject
  \/ ReadBlockData
  \/ ReadClassDesc
  \/ ReadNewClassDesc
  \/ ReadFieldDesc
  \/ ReadClassAnnotations
  \/ SuperClassDesc
  \/ ReadNewObject
  \/ NewObjectClassDesc
  \/ ReadObjectData
  \/ ReadObjectAnnotations
  \/ ObjectAnnotationContent

SpecPair == InitPair /\ [][NextPair]_vars

(***************************************************************************)
(* What the specification says of the sessions                             *)
(***************************************************************************)
Range(q) == { q[i] : i \in 1..Len(q) }

\* the session's parse() returned
Decoded == ctl.op \in {"done", "reencoded"}

\* the session's buffer is what write_object() wrote for a graph, or what
\* build() wrote for a script
Encoded == closed /\ graph.root.k \notin {"script", "config"}
Built == closed /\ graph.root.k = "script"

\* the session's buffer is what compile_to_bytes() wrote for a configuration
Compiled == closed /\ graph.root.k = "config"

\* the values a container holds, in the order write_hashmap and
\* write_arraylist write them
RECURSIVE Flatten(_)
Flatten(items) ==
  IF items = << >> THEN << >>
  ELSE <<Head(items).key, Head(items).value>> \o Flatten(Tail(items))

ItemsOf(node) == IF node.t = "dict" THEN Flatten(node.items) ELSE node.items

\* the containers of a graph in the order a walk from the root first meets
\* them
RECURSIVE Visit(_, _, _)
Visit(G, todo, seen) ==
  IF todo = << >> THEN seen
  ELSE IF Head(todo).k = "node" /\ Head(todo).id \notin Range(seen)
  THEN Visit(G, ItemsOf(G[Head(todo).id]) \o Tail(todo), Append(seen, Head(todo).id))
  ELSE Visit(G, Tail(todo), seen)

\* the objects of the heap, oldest first
RECURSIVE ObjectsFrom(_)
ObjectsFrom(i) ==
  IF i > Len(heap) THEN << >>
  ELSE IF heap[i].t = "JavaObject" THEN <<i>> \o ObjectsFrom(i + 1)
  ELSE ObjectsFrom(i + 1)

IndexIn(q, x) == CHOOSE i \in 1..Len(q) : q[i] = x

Unwrap(v) == IF v.k = "JavaReference" THEN v.resolved ELSE v

\* a decoded value is the graph's value: null for None, the same text for a
\* text, and for a container the object decoded for it
SameValue(gv, dv) ==
  LET order == Visit(graph.nodes, <<graph.root>>, << >>)
      objects == ObjectsFrom(1)
  IN  CASE gv.k = "none" -> dv.k = "none"
        [] gv.k = "str" -> Unwrap(dv).k = "str" /\ Unwrap(dv).s = gv.s
        [] gv.k = "node" ->
             /\ Unwrap(dv).k = "obj"
             /\ IndexIn(order, gv.id) <= Len(objects)
             /\ Unwrap(dv).id = objects[IndexIn(order, gv.id)]
        [] OTHER -> FALSE

\* a decoded descriptor is the class the encoder wrote: name, flags, field
\* table and super classes
RECURSIVE SameClass(_, _)
SameClass(c, dv) ==
  IF c.k # "class" THEN dv.k = "none"
  ELSE /\ dv.k = "obj"
       /\ heap[dv.id].t = "JavaClassDesc"
       /\ heap[dv.id].name = c.class_name
       /\ heap[dv.id].serial_version_uid = c.serial_uid
       /\ heap[dv.id].flags = c.flags
       /\ Len(heap[dv.id].fields) = Len(c.fields)
       /\ \A i \in 1..Len(c.fields) :
            /\ heap[dv.id].fields[i].type_code = c.fields[i][1]
            /\ heap[dv.id].fields[i].name = c.fields[i][2]
       /\ SameClass(c.super_class, heap[dv.id].super_class)

\* the primitive fields and the block the encoder writes for a container
FieldsOf(node) ==
  IF node.t = "dict"
  THEN << [name |-> F_loadFactor, value |-> PyFloat(LoadFactor)],
          [name |-> F_threshold,
           value |-> PyInt(Threshold(Capacity(16, Len(node.items))))] >>
  ELSE << [name |-> F_size, value |-> PyInt(Len(node.items))] >>

BlockOf(node) ==
  IF node.t = "dict"
  THEN PackI32(Capacity(16, Len(node.items))) \o PackI32(Len(node.items))
  ELSE PackI32(Len(node.items))

\* a decoded object is the container: its class, its primitive values, and
\* in its annotations the block and then every value in order
SameNode(node, o) ==
  /\ SameClass(IF node.t = "dict" THEN HashMapClass ELSE ArrayListClass, heap[o].class_desc)
  /\ heap[o].field_values = FieldsOf(node)
  /\ Len(heap[o].annotations) = 1 + Len(ItemsOf(node))
  /\ heap[o].annotations[1].k \in {"bytes", "BlockData"}
  /\ heap[o].annotations[1].b = BlockOf(node)
  /\ \A i \in 1..Len(ItemsOf(node)) : SameValue(ItemsOf(node)[i], heap[o].annotations[i + 1])

StructurallyEqual ==
  LET order == Visit(graph.nodes, <<graph.root>>, << >>)
      objects == ObjectsFrom(1)
  IN  /\ Len(objects) = Len(order)
      /\ SameValue(graph.root, ctl.result)
      /\ \A i \in 1..Len(order) : SameNode(graph.nodes[order[i]], objects[i])

\* C1: when a parser has decoded the bytes an encoder session wrote for a
\* graph of dicts, lists, texts and nulls, what it returns is structurally
\* equal to the graph: the same classes, flags and field tables, the same
\* primitive values, the same annotation elements in the same order and the
\* same sharing of containers and texts.
C1_RoundTrip == (Encoded /\ Decoded) => StructurallyEqual

\* the same for the graphs that hold no null inside a container
NoNullInside ==
  \A i \in 1..Len(graph.nodes) :
    \A j \in 1..Len(ItemsOf(graph.nodes[i])) : ItemsOf(graph.nodes[i])[j].k # "none"

C1_RoundTripWithoutNull == (Encoded /\ Decoded /\ NoNullInside) => StructurallyEqual

\* C2: when a buffer has been decoded and what parse() returned has been
\* given to a new encoder session, that session raises nothing and its
\* buffer is the decoded buffer, byte for byte.
C2_ByteExact == (ctl.op = "reencoded") => (reenc.err = "" /\ reenc.buffer = data)

\* the buffers for which it is so: the encoder takes what parse() returned
\* and writes the same bytes
C2_SomeByteExact == ctl.op = "reencoded" /\ reenc.err = "" /\ reenc.buffer = data

\* the TC_REFERENCE reads of the parse log, in the order of the stream
RefReads == SelectSeq(log, LAMBDA ev : ev.e = "ref")

\* what the decoder's table holds at a handle is what the encoder took the
\* handle for: the text, the class of that name, or an object of that class
Meant(a, v) ==
  CASE a.kind = "string" -> v.k = "str" /\ v.s = a.key
    [] a.kind = "class" ->
         /\ v.k = "obj"
         /\ heap[v.id].t = "JavaClassDesc"
         /\ heap[v.id].name = a.key
         /\ heap[v.id].handle = a.h
    [] a.kind = "object" ->
         /\ v.k = "obj"
         /\ heap[v.id].t = "JavaObject"
         /\ heap[v.id].handle = a.h
         /\ IsClassDesc(heap, heap[v.id].class_desc)
         /\ heap[heap[v.id].class_desc.id].name = a.key

\* C3: when a parser has decoded the bytes of an encoder session
\* (write_object() for a graph, or BWNScriptBuilder.build() for a script),
\* it has taken as many handles as the encoder, its table holds at every
\* handle the text, class descriptor or object the encoder took the handle
\* for, every container of a graph is the object at the handle the encoder
\* keeps for it, and the TC_REFERENCEs it read are the ones the encoder
\* wrote, each resolved to the entry of the table at its handle.
C3_SameHandles ==
  ((Encoded \/ Built) /\ Decoded) =>
    /\ next_handle = enc.handle_counter
    /\ DOMAIN handles = { enc.allocs[i].h : i \in 1..Len(enc.allocs) }
    /\ \A i \in 1..Len(enc.allocs) : Meant(enc.allocs[i], handles[enc.allocs[i].h])
    /\ Encoded =>
         \A id \in DOMAIN enc.object_handles :
           SameValue(PyNode(id), handles[enc.object_handles[id]])
    /\ Len(RefReads) = Len(enc.refs)
    /\ \A i \in 1..Len(enc.refs) :
         /\ RefReads[i].at = enc.refs[i].at
         /\ RefReads[i].handle = enc.refs[i].handle
         /\ RefReads[i].handle \in DOMAIN handles
         /\ RefReads[i].found = handles[RefReads[i].handle]

\* a script of two tabs is decoded: the second tab's classes and type texts
\* are references, and each tab's mutex is a reference to an object
C3_ScriptDecoded ==
  /\ Built
  /\ Decoded
  /\ Len(graph.root.tabs) = 2
  /\ Len(graph.root.tabs[1].commands) = 2
  /\ \E i \in 1..Len(enc.refs) : \E j \in 1..Len(enc.allocs) :
       enc.allocs[j].kind = "object" /\ enc.refs[i].handle = enc.allocs[j].h
  /\ \E i \in 1..Len(enc.refs) : \E j \in 1..Len(enc.allocs) :
       enc.allocs[j].kind = "string" /\ enc.refs[i].handle = enc.allocs[j].h

\* the handles taken and the resets of the parse log, in order
Taken == SelectSeq(log, LAMBDA ev : ev.e \in {"alloc", "reset"})

\* the handle the next new_handle() gives, by the log
NextByLog ==
  LET T == Taken
  IN IF T = << >> \/ T[Len(T)].e = "reset" THEN BASE_WIRE_HANDLE
     ELSE T[Len(T)].h + 1

\* C4: in one decode pass the first handle taken is 0x7E0000 and each
\* later one is the one before plus one, except that the first handle
\* taken after a reset is 0x7E0000 again, and the counter stands at the
\* handle after the last one taken.
C4_HandleMonotonicity ==
  LET T == Taken
  IN /\ \A i \in 1..Len(T) :
          T[i].e = "alloc" =>
            T[i].h = IF i = 1 \/ T[i - 1].e = "reset" THEN BASE_WIRE_HANDLE
                     ELSE T[i - 1].h + 1
     /\ next_handle = NextByLog

\* two handles were taken, then a reset was read, then a handle was taken
C4_RestartedAfterReset ==
  LET T == Taken
  IN \E j \in 3..(Len(T) - 1) :
       /\ T[j].e = "reset"
       /\ T[j - 1].e = "alloc" /\ T[j - 1].h = BASE_WIRE_HANDLE + 1
       /\ T[j + 1].e = "alloc"

\* the handles a step takes
TakenByStep == next_handle' - next_handle

\* the step enters x in the table at the handle it took
Registers(x) == handles' = Put(handles, next_handle, x)

\* the descriptor is in the table at its handle: no TC_RESET was read since
\* it was registered
StillRegistered(cd) ==
  /\ heap[cd.id].handle \in DOMAIN handles
  /\ handles[heap[cd.id].handle] = cd

\* what a step does with the handles, by the element it is at; Apart(cd)
\* tells of which descriptors a class object's handle has to differ
StepTakes(Apart(_)) ==
  CASE ctl.op \in {"read_new_string", "read_new_long_string"} ->
         TakenByStep = 1 /\ ctl'.val.k = "str" /\ Registers(ctl'.val)
    [] ctl.op \in {"read_new_class_desc", "read_new_proxy_class_desc"} ->
         /\ TakenByStep = 1
         /\ Len(heap') = Len(heap) + 1
         /\ heap'[Len(heap')].t = "JavaClassDesc"
         /\ Registers(PyObj(Len(heap')))
    [] ctl.op = "return" /\ Top.k = "new_object" /\ ~IsNone(ctl.val) ->
         /\ TakenByStep = 1
         /\ heap'[Len(heap')].t = "JavaObject"
         /\ Registers(PyObj(Len(heap')))
    [] ctl.op = "return" /\ Top.k = "new_array" ->
         /\ TakenByStep = 1
         /\ heap'[Len(heap')].t = "JavaArray"
         /\ Registers(PyObj(Len(heap')))
    [] ctl.op = "return" /\ Top.k = "new_enum" -> TakenByStep = 1 /\ handles' = handles
    [] ctl.op = "return" /\ Top.k = "enum_constant" ->
         /\ TakenByStep = 0
         /\ heap'[Len(heap')].t = "JavaEnum"
         /\ handles' = Put(handles, Top.handle, PyObj(Len(heap')))
         /\ Top.handle = heap'[Len(heap')].handle
    [] ctl.op = "return" /\ Top.k = "new_class" ->
         /\ TakenByStep = 1
         /\ Registers(ctl.val)
         /\ (IsClassDesc(heap, ctl.val) /\ Apart(ctl.val)) =>
               heap[ctl.val.id].handle # next_handle
    [] ctl.op = "read_field_desc" ->
         \/ TakenByStep = 0 /\ handles' = handles
         \/ TakenByStep = 1 /\ \E v \in Range(heap'[ctl.cd].fields) :
                                   v.class_name.k = "str" /\ Registers(v.class_name)
    [] ctl.op = "read_content" /\ log'[Len(log')].e = "reset" ->
         next_handle' = BASE_WIRE_HANDLE /\ handles' = EmptyMap
    [] OTHER -> TakenByStep = 0 /\ handles' = handles

AnyDescriptor(cd) == TRUE

ChainHandles(class_desc) ==
  IF IsClassDesc(heap, class_desc)
  THEN { heap[c].handle : c \in Range(Chain(heap, class_desc, {}).h) }
  ELSE {}

\* the step of read_new_object() that follows the class descriptor
ObjectStep == ctl.op = "return" /\ Top.k = "new_object"

\* C6: when the class descriptor of a TC_OBJECT element has been read,
\* whether it is null, new, a proxy or a reference, the next step takes
\* exactly one handle and enters the object at it, before any field value
\* is read, and the handle is larger than those of its descriptor chain.
C6_ObjectAlwaysNumbered ==
  [][ObjectStep =>
       /\ next_handle' = next_handle + 1
       /\ next_handle \in DOMAIN handles'
       /\ handles'[next_handle].k = "obj"
       /\ heap'[handles'[next_handle].id].t = "JavaObject"
       /\ \A h \in ChainHandles(ctl.val) : h < next_handle]_vars

\* the same when the class descriptor is there
C6_DescribedObjectNumbered ==
  [][(ObjectStep /\ ~IsNone(ctl.val)) =>
       /\ next_handle' = next_handle + 1
       /\ next_handle \in DOMAIN handles'
       /\ handles'[next_handle].k = "obj"
       /\ heap'[handles'[next_handle].id].t = "JavaObject"
       /\ \A h \in ChainHandles(ctl.val) : h < next_handle]_vars

\* the step of read_content() reads a TC_RESET
ResetStep == ctl.op = "read_content" /\ Len(data') > pos /\ data'[pos + 1] = TC_RESET

\* C7: in every decoder generation a TC_RESET read at a content position
\* empties the handle table and sets the counter back to 0x7E0000, and the
\* content that follows is read in its place.
C7_ResetRestarts ==
  [][ResetStep =>
       /\ handles' = EmptyMap
       /\ next_handle' = BASE_WIRE_HANDLE
       /\ ctl' = Call("read_content")
       /\ stack' = stack
       /\ pos' = pos + 1]_vars

\* the same in the first generation alone
C7_ResetRestartsV1 ==
  [][(ResetStep /\ gen = "v1") =>
       /\ handles' = EmptyMap
       /\ next_handle' = BASE_WIRE_HANDLE
       /\ ctl' = Call("read_content")
       /\ stack' = stack
       /\ pos' = pos + 1]_vars

\* hierarchy runs from the root-most superclass down to class_desc
RootFirst(hierarchy, class_desc) ==
  /\ hierarchy # << >>
  /\ PyObj(hierarchy[Len(hierarchy)]) = class_desc
  /\ EndsChain(heap[hierarchy[1]].super_class)
  /\ \A i \in 1..(Len(hierarchy) - 1) :
       heap[hierarchy[i + 1]].super_class = PyObj(hierarchy[i])

\* the fields of the classes of a hierarchy in the order they are due
RECURSIVE FieldsDue(_)
FieldsDue(hierarchy) ==
  IF hierarchy = << >> THEN << >>
  ELSE [fi \in 1..Len(heap[Head(hierarchy)].fields) |-> <<Head(hierarchy), fi>>]
         \o FieldsDue(Tail(hierarchy))

\* the fields read for an object, in the order they were read
FieldsRead(obj) ==
  LET evs == SelectSeq(log, LAMBDA ev : ev.e = "field" /\ ev.obj = obj)
  IN  [i \in 1..Len(evs) |-> <<evs[i].cls, evs[i].fi>>]

IsPrefix(p, q) == Len(p) <= Len(q) /\ \A i \in 1..Len(p) : p[i] = q[i]

\* C8: when the field values of an object start being read, the classes of
\* its hierarchy run from the root-most superclass down to the object's own
\* class; the field values are read class by class in that order and inside
\* a class in the order of the descriptor's fields, and when the object is
\* complete every field of every class of the chain has been read once.
C8_HierarchyOrder ==
  /\ (ctl.op = "read_object_data" /\ ctl.ci = 1 /\ ctl.fi = 1)
       => RootFirst(ctl.hierarchy, heap[ctl.obj].class_desc)
  /\ \A i \in 1..Len(log) :
       log[i].e = "object" =>
         LET due == FieldsDue(log[i].hierarchy)
             got == FieldsRead(log[i].obj)
         IN  /\ IsPrefix(got, due)
             /\ (\E j \in 1..Len(log) : log[j].e = "object_end" /\ log[j].obj = log[i].obj)
                  => got = due
             /\ (ctl.op = "read_object_data" /\ ctl.obj = log[i].obj)
                  => ctl.hierarchy = log[i].hierarchy

\* an object of a class with a superclass, both with fields, was read to
\* its end
C8_SubclassObjectRead ==
  \E i \in 1..Len(log) :
    /\ log[i].e = "object"
    /\ Len(log[i].hierarchy) >= 2
    /\ \A c \in Range(log[i].hierarchy) : heap[c].fields # << >>
    /\ \E j \in 1..Len(log) : log[j].e = "object_end" /\ log[j].obj = log[i].obj

\* the flags byte of a class has the SC_WRITE_METHOD bit
FlagSet(c) == (heap[c].flags \div SC_WRITE_METHOD) % 2 = 1

\* what read_object_data() is due to do for the classes of a hierarchy: the
\* fields of a class, then its annotation sequence and the end of it if the
\* class has the flag, and nothing if it has not
RECURSIVE StepsDue(_)
StepsDue(hierarchy) ==
  IF hierarchy = << >> THEN <<<<"object_end", 0, 0>>>>
  ELSE LET c == Head(hierarchy)
       IN  [fi \in 1..Len(heap[c].fields) |-> <<"field", c, fi>>]
             \o (IF FlagSet(c) THEN <<<<"annotations", c, 0>>, <<"annotations_end", c, 0>>>>
                 ELSE <<<<"no_annotations", c, 0>>>>)
             \o StepsDue(Tail(hierarchy))

\* what the log says was done for an object
ObjectEvents(obj) ==
  SelectSeq(log, LAMBDA ev : /\ ev.e \in {"field", "annotations", "no_annotations",
                                           "annotations_end", "object_end"}
                             /\ ev.obj = obj)

StepOf(ev) ==
  <<ev.e, IF ev.e = "object_end" THEN 0 ELSE ev.cls, IF ev.e = "field" THEN ev.fi ELSE 0>>

\* C9: for each class of an object's hierarchy the decoder reads an
\* annotation sequence right after the class's fields if and only if the
\* class's flags have SC_WRITE_METHOD; the sequence ends with exactly one
\* TC_ENDBLOCKDATA, read also when the sequence is empty, after which the
\* next class starts at the following byte; for a class without the flag
\* the next class (or the end of the object) starts at the very byte where
\* the class's fields ended.
C9_AnnotationGating ==
  \A i \in 1..Len(log) :
    log[i].e = "object" =>
      LET due == StepsDue(log[i].hierarchy)
          evs == ObjectEvents(log[i].obj)
      IN  /\ Len(evs) <= Len(due)
          /\ \A k \in 1..Len(evs) : StepOf(evs[k]) = due[k]
          /\ \A k \in 1..Len(evs) :
               /\ evs[k].e = "annotations_end" =>
                    /\ data[evs[k].at + 1] = TC_ENDBLOCKDATA
                    /\ (k < Len(evs) => evs[k + 1].at = evs[k].at + 1)
               /\ evs[k].e = "no_annotations" =>
                    (k < Len(evs) => evs[k + 1].at = evs[k].at)

\* an object was read to its end whose hierarchy has a class with the
\* flag, one with an empty annotation sequence, and a class without it
C9_GatedObjectRead ==
  \E i \in 1..Len(log) :
    /\ log[i].e = "object"
    /\ \E c \in Range(log[i].hierarchy) : FlagSet(c)
    /\ \E c \in Range(log[i].hierarchy) : ~FlagSet(c)
    /\ LET evs == ObjectEvents(log[i].obj)
       IN  /\ evs # << >> /\ evs[Len(evs)].e = "object_end"
           /\ \E k \in 1..(Len(evs) - 1) :
                /\ evs[k].e = "annotations" /\ evs[k + 1].e = "annotations_end"
                /\ evs[k + 1].at = evs[k].at

\* the events of the log that open or close an annotation sequence or an
\* object: a class's sequence is its descriptor's, from the descriptor's
\* handle to the end of its class annotations
Framing ==
  SelectSeq(log, LAMBDA ev :
    \/ ev.e \in {"annotations", "annotations_end", "class_annotations_end",
                 "object", "object_end"}
    \/ ev.e = "alloc" /\ ev.kind \in {"classdesc", "proxyclassdesc"})

Opens(ev) == ev.e \in {"annotations", "alloc"}

Closes(ev) == ev.e \in {"annotations_end", "class_annotations_end"}

\* the entity whose sequence an event opens or closes
Owner(ev) ==
  CASE ev.e = "alloc" -> <<"class", ev.at + 1, 0>>
    [] ev.e = "class_annotations_end" -> <<"class", ev.cd, 0>>
    [] OTHER -> <<"object", ev.obj, ev.cls>>

\* C10: every TC_ENDBLOCKDATA that closes an annotation sequence closes
\* the sequence of the entity that opened last and is still open: whatever
\* was opened inside a sequence - the class annotations of a descriptor, the
\* instance annotations of an object, the object itself - is closed inside
\* it, by a TC_ENDBLOCKDATA of its own, at any depth; an object read to its
\* end has closed the sequence of each of its classes that has one.
C10_SequencesNest ==
  LET F == Framing
  IN  /\ \A j \in 1..Len(F) :
           Closes(F[j]) =>
             /\ data[F[j].at + 1] = TC_ENDBLOCKDATA
             /\ \A m \in 1..Len(F) : (Closes(F[m]) /\ m # j) => F[m].at # F[j].at
             /\ \E i \in 1..(j - 1) :
                  /\ Opens(F[i]) /\ Owner(F[i]) = Owner(F[j])
                  /\ \A k \in (i + 1)..(j - 1) :
                       /\ Opens(F[k]) =>
                            \E m \in (k + 1)..(j - 1) :
                              Closes(F[m]) /\ Owner(F[m]) = Owner(F[k])
                       /\ Closes(F[k]) =>
                            \E m \in (i + 1)..(k - 1) :
                              Opens(F[m]) /\ Owner(F[m]) = Owner(F[k])
                       /\ F[k].e = "object" =>
                            \E m \in (k + 1)..(j - 1) :
                              F[m].e = "object_end" /\ F[m].obj = F[k].obj
      /\ \A j \in 1..Len(F) :
           F[j].e = "object_end" =>
             \E i \in 1..(j - 1) :
               /\ F[i].e = "object" /\ F[i].obj = F[j].obj
               /\ \A c \in Range(F[i].hierarchy) :
                    FlagSet(c) =>
                      \E m \in (i + 1)..(j - 1) :
                        Closes(F[m]) /\ Owner(F[m]) = <<"object", F[j].obj, c>>

\* an annotation sequence was closed after an object inside it had closed
\* an instance annotation sequence of its own
C10_NestedSequenceClosed ==
  LET F == Framing
  IN  \E i, k, m, j \in 1..Len(F) :
        /\ i < k /\ k < m /\ m < j
        /\ Opens(F[i]) /\ Closes(F[j]) /\ Owner(F[i]) = Owner(F[j])
        /\ F[k].e = "annotations" /\ F[m].e = "annotations_end"
        /\ Owner(F[k]) = Owner(F[m])

\* the step that takes the element read for an instance annotation
AnnotationElementStep == ctl.op = "return" /\ Top.k = "object_annotations"

\* C11: the element read for an instance annotation sequence is added at
\* the end of the list of the sequence, whatever it is, None included
C11_EveryElementAppended ==
  [][AnnotationElementStep =>
       ctl'.annotations = Append(Top.annotations, ctl.val)]_vars

\* the elements that are not None are added at the end of the list, in the
\* order read, and the list is the object's when TC_ENDBLOCKDATA is read
C11_ElementsButNoneAppended ==
  [][/\ AnnotationElementStep =>
          ctl'.annotations = IF IsNone(ctl.val) THEN Top.annotations
                             ELSE Append(Top.annotations, ctl.val)
     /\ (ctl.op = "read_object_annotations" /\ ctl'.op = "read_object_data") =>
          heap'[ctl.obj].annotations = heap[ctl.obj].annotations \o ctl.annotations]_vars

\* the frame under which the super class of descriptor cd is read
SuperFrame(cd) == [k |-> "super_class", cd |-> cd]

\* the step reads the super class position of a descriptor
EntersSuper ==
  /\ ctl'.op = "read_class_desc"
  /\ stack' # << >>
  /\ stack'[Len(stack')].k = "super_class"
  /\ stack' # stack

\* the descriptor cd has had its class annotations closed
AnnotationsClosed(lg, cd) ==
  \E i \in 1..Len(lg) : lg[i].e = "class_annotations_end" /\ lg[i].cd = cd

\* C12: a new class descriptor, whatever its flags, goes from the last row
\* of its field table, and a proxy descriptor from its interface list, to
\* its class annotations.  There, as long as the next byte is not
\* TC_ENDBLOCKDATA, it is left in place and one content element is read,
\* after which the descriptor is at its class annotations again; when the
\* next byte is TC_ENDBLOCKDATA, that one byte is taken, for the first and
\* only time for this descriptor, and the super class position is read
\* next.  No other step reads a super class position.  (A TC_ENDBLOCKDATA
\* inside a content element, the one that follows a TC_RESET included, is
\* at that element's level.)
C12_AnnotationsThenSuper ==
  [][/\ (ctl.op \in {"read_new_class_desc", "read_field_desc"} /\ ctl'.op # "error") =>
          IF ctl'.op = "read_field_desc" THEN ctl'.left > 0
          ELSE /\ ctl'.op = "read_class_annotations"
               /\ ctl'.cd = (IF ctl.op = "read_field_desc" THEN ctl.cd ELSE Len(heap'))
               /\ ctl.op = "read_field_desc" => ctl.left = 1
     /\ (ctl.op = "read_new_proxy_class_desc" /\ ctl'.op # "error") =>
          ctl'.op = "read_class_annotations" /\ ctl'.cd = Len(heap')
     /\ (ctl.op = "read_class_annotations" /\ ctl'.op # "error") =>
          IF data'[pos + 1] = TC_ENDBLOCKDATA
          THEN /\ pos' = pos + 1
               /\ ctl'.op = "read_class_desc"
               /\ stack' = Push(SuperFrame(ctl.cd))
               /\ ~AnnotationsClosed(log, ctl.cd)
               /\ AnnotationsClosed(log', ctl.cd)
          ELSE /\ pos' = pos
               /\ ctl'.op = "read_content"
               /\ stack' = Push([k |-> "class_annotations", cd |-> ctl.cd,
                                 annotations |-> ctl.annotations])
     /\ (ctl.op = "return" /\ Top.k = "class_annotations") =>
          ctl'.op = "read_class_annotations" /\ ctl'.cd = Top.cd /\ stack' = Pop
     /\ EntersSuper => ctl.op = "read_class_annotations"]_vars

\* a descriptor without SC_WRITE_METHOD and a proxy descriptor have each had
\* a content element read among their class annotations before the
\* TC_ENDBLOCKDATA, and their super class read after it
C12_AnnotatedDescriptorsRead ==
  /\ ctl.op = "done"
  /\ ~closed
  /\ \A kind \in {"classdesc", "proxyclassdesc"} :
       \E i \in 1..Len(log) :
         /\ log[i].e = "alloc" /\ log[i].kind = kind
         /\ ~FlagSet(log[i].at + 1)
         /\ \E k \in (i + 2)..(Len(log) - 1) :
              /\ log[k].e = "class_annotations_end" /\ log[k].cd = log[i].at + 1
              /\ log[k + 1].e = "desc" /\ log[k + 1].at = log[k].at + 1
              /\ \E j \in (i + 1)..(k - 1) :
                   log[j].e = "tc" /\ log[j].tc # TC_ENDBLOCKDATA

\* the descriptors that are being read: at their field table or their class
\* annotations, or with an element of their class annotations or their
\* super class under way
InProgress ==
  { stack[i].cd : i \in { n \in 1..Len(stack) :
                            stack[n].k \in {"class_annotations", "super_class"} } }
    \cup (IF ctl.op \in {"read_field_desc", "read_class_annotations"} THEN {ctl.cd} ELSE {})

\* the descriptor was read by read_new_class_desc(): it is not a proxy's
NewClassDesc(cd) ==
  \E i \in 1..Len(log) :
    log[i].e = "alloc" /\ log[i].kind = "classdesc" /\ log[i].at = cd - 1

\* the step reads a TC_REFERENCE to handle h
ReadsReference(h) ==
  /\ log' # log
  /\ log'[Len(log')].e = "ref"
  /\ log'[Len(log')].handle = h

\* what the step gives for the reference it reads is v: the element's value,
\* the class descriptor, or the type of the field
Yields(h, v) ==
  CASE ctl.op = "read_prev_object" ->
         ctl'.val = IF gen = "v1" THEN JavaReference(h, v) ELSE v
    [] ctl.op = "read_class_desc" -> ctl'.val = v
    [] ctl.op = "read_field_desc" ->
         heap'[ctl.cd].fields[Len(heap'[ctl.cd].fields)].class_name = v
    [] OTHER -> FALSE

\* read_new_class_desc() has taken the descriptor's handle and entered the
\* descriptor in the table when it comes to the field table, of which no
\* row is read yet
RegisteredBeforeFields ==
  (ctl.op = "read_new_class_desc" /\ ctl'.op # "error") =>
    /\ next_handle' = next_handle + 1
    /\ heap'[Len(heap')].handle = next_handle
    /\ heap'[Len(heap')].fields = << >>
    /\ next_handle \in DOMAIN handles'
    /\ handles'[next_handle] = PyObj(Len(heap'))

\* while a new class descriptor cd is being read, a handle that is taken is
\* greater than the descriptor's and a TC_REFERENCE to the descriptor's handle gives the
\* descriptor, for the descriptors that Holds(cd) tells
WhileInProgress(Holds(_)) ==
  \A cd \in InProgress :
    (NewClassDesc(cd) /\ Holds(PyObj(cd))) =>
      /\ next_handle' = next_handle + 1 => next_handle > heap[cd].handle
      /\ ReadsReference(heap[cd].handle) => Yields(heap[cd].handle, PyObj(cd))

\* dump_new_classdesc() has entered the descriptor in the table at the handle
\* it took when it comes to the field table
DumperRegisteredBeforeFields ==
  (ctl.op = "dump_new_classdesc" /\ ctl'.op = "dump_fields") =>
    ctl'.handle \in DOMAIN handles'

\* C13 for parse(): a new class descriptor has its handle, and is in the table at it,
\* before the first row of its field table is read.  From then until its
\* super class is read, and as long as no TC_RESET is read, every handle
\* taken - for the type of a field, in its class annotations, in its super
\* classes - is greater than its own, and a TC_REFERENCE to its handle gives
\* the descriptor.
C13_RegisteredBeforeFields ==
  [][RegisteredBeforeFields /\ WhileInProgress(StillRegistered)]_vars

\* C13 as stated: the same for parse() and for dump(), a TC_RESET read in
\* the meantime or not
C13_RegisteredWhateverIsRead ==
  [][/\ RegisteredBeforeFields
     /\ DumperRegisteredBeforeFields
     /\ WhileInProgress(AnyDescriptor)]_vars

\* a descriptor took a handle, then the type of one of its fields took one,
\* then a reference to the descriptor's handle was read and gave the
\* descriptor, then the descriptor's class annotations were closed
C13_OwnHandleReferred ==
  /\ ctl.op = "done"
  /\ ~closed
  /\ \E i \in 1..Len(log) :
       /\ log[i].e = "alloc" /\ log[i].kind = "classdesc"
       /\ \E m \in (i + 3)..Len(log) :
            /\ log[m].e = "class_annotations_end" /\ log[m].cd = log[i].at + 1
            /\ \E j \in (i + 1)..(m - 2) :
                 /\ log[j].e = "alloc" /\ log[j].kind = "string" /\ log[j].h > log[i].h
                 /\ \E k \in (j + 1)..(m - 1) :
                      /\ log[k].e = "ref" /\ log[k].handle = log[i].h
                      /\ log[k].found = PyObj(log[i].at + 1)


\* the TC_STRING elements read so far that no TC_RESET has followed, each
\* <<h, s>>: the handle it was given and its text, which is the one the
\* buffer holds after the tag
StringsGiven ==
  { <<log[n + 1].h, PyStr(read_utf(data, log[n].at + 1).v)>> :
      n \in { i \in 1..(Len(log) - 1) :
                /\ log[i].e = "tc" /\ log[i].tc = TC_STRING
                /\ log[i + 1].e = "alloc" /\ log[i + 1].kind = "string"
                /\ \A j \in (i + 2)..Len(log) : log[j].e # "reset" } }

\* C14: in a session of parse(), when a TC_STRING element was read and
\* given the handle h and no TC_RESET has been read since, a step that reads
\* a TC_REFERENCE to h - as a content element, as a class descriptor or as
\* the type of a field - gives the text of that element (in bwn_parser.py,
\* as a content element, a JavaReference resolved to it).
C14_ReferenceGivesString ==
  [][gen # "dump" =>
       \A g \in StringsGiven : ReadsReference(g[1]) => Yields(g[1], g[2])]_vars

\* the same for the sessions in which no TC_RESET was read at all
C14_ReferenceGivesStringUnreset ==
  [][(gen # "dump" /\ \A j \in 1..Len(log) : log[j].e # "reset") =>
       \A g \in StringsGiven : ReadsReference(g[1]) => Yields(g[1], g[2])]_vars

\* a string was read, no TC_RESET after it, and a reference to its handle
\* has just been read as a content element and found it
C14_StringReferred ==
  /\ gen # "dump"
  /\ ctl.op = "return"
  /\ log # << >>
  /\ log[Len(log)].e = "ref"
  /\ log[Len(log)].found.k = "str"
  /\ \E g \in StringsGiven : g[1] = log[Len(log)].handle /\ g[2] = log[Len(log)].found
  /\ \A j \in 1..Len(log) : log[j].e # "reset"


\* the step of parse() reads a TC_REFERENCE to a handle that is not in the table
ReadsUnknownHandle ==
  /\ gen # "dump"
  /\ log' # log
  /\ log'[Len(log')].e = "ref"
  /\ log'[Len(log')].handle \notin DOMAIN handles

\* what the step gives for the reference it reads: the element's value, the
\* class descriptor, or the type of the field
GivenForReference ==
  IF ctl.op = "read_field_desc"
  THEN heap'[ctl.cd].fields[Len(heap'[ctl.cd].fields)].class_name
  ELSE ctl'.val

\* a value that tells of a reference that was not resolved: it is not None,
\* and it is not what a reference that was resolved gives
Placeholder(v) ==
  \/ v.k = "JavaReference" /\ IsNone(v.resolved)
  \/ v.k = "str" /\ "ref" \in DOMAIN v

\* C15: a step of parse() that reads a TC_REFERENCE to a handle that is not
\* in the table does not end the session: it leaves the cursor after the four
\* bytes of the handle and gives a placeholder, which is neither None nor a
\* value of the table.
C15_UnknownHandlePlaceholder ==
  [][ReadsUnknownHandle =>
       /\ ctl'.op # "error"
       /\ pos' = log'[Len(log')].at + 5
       /\ Placeholder(GivenForReference)]_vars

\* the same without the placeholder: the session goes on after the handle
C15_UnknownHandleGoesOn ==
  [][ReadsUnknownHandle => (ctl'.op # "error" /\ pos' = log'[Len(log')].at + 5)]_vars


\* the session is past the step that reads the header
HeaderRead == ctl.op \notin {"parse", "dump"}

\* the buffer has the field and it is not the protocol's
BadMagic == Len(data) >= 2 /\ U16(data[1], data[2]) # U16(STREAM_MAGIC_HI, STREAM_MAGIC_LO)
BadVersion == Len(data) >= 4 /\ U16(data[3], data[4]) # STREAM_VERSION

\* the session ended with the header's error, no element read, no handle taken
HeaderMismatch ==
  /\ ctl.op = "error"
  /\ ctl.exc = "ValueError"
  /\ ctl.why \in {"Invalid stream magic", "Invalid stream version"}
  /\ pos <= 4
  /\ log = << >>
  /\ next_handle = BASE_WIRE_HANDLE
  /\ handles = EmptyMap

\* C16: once the header is read, by parse() or by dump(), a buffer whose
\* first 16-bit field is not 0xACED or whose second is not 0x0005 has ended
\* the session with the header's error, before any content element was read
\* and before any handle was taken.
C16_HeaderValidated == (HeaderRead /\ (BadMagic \/ BadVersion)) => HeaderMismatch

\* the same for the sessions of parse() only
C16_ParseValidatesHeader ==
  (gen # "dump" /\ HeaderRead /\ (BadMagic \/ BadVersion)) => HeaderMismatch


\* the bytes a function of the parsers reads before it does anything else,
\* with the buffer d and the cursor at p: the header's two fields; a tag; a
\* text with its length; a handle; a block with its size; the name, the
\* serialVersionUID, the flags and the field count of a descriptor; the
\* type code and the name of a field; the count of a proxy's interfaces
Asks(op, d, p) ==
  LET left == Len(d) - p
      Text(at) == IF Len(d) - at >= 2 THEN 2 + U16(d[at + 1], d[at + 2]) ELSE 2
  IN  CASE op = "parse" ->
             IF left >= 2 /\ U16(d[1], d[2]) = U16(STREAM_MAGIC_HI, STREAM_MAGIC_LO)
             THEN 4 ELSE 2
        [] op \in {"read_content", "read_class_desc", "read_class_annotations",
                   "read_object_annotations"} -> 1
        [] op = "read_new_string" -> Text(p)
        [] op = "read_new_long_string" -> 8
        [] op \in {"read_prev_object", "read_block_data_long",
                   "read_new_proxy_class_desc"} -> 4
        [] op = "read_block_data" -> IF left >= 1 THEN 1 + d[p + 1] ELSE 1
        [] op = "read_new_class_desc" -> Text(p) + 11
        [] op = "read_field_desc" -> 1 + Text(p + 1)
        [] OTHER -> 0

\* C17: in a session of parse(), a step of a function that asks for more
\* bytes than the buffer has left after the cursor ends the session with the
\* error of read_bytes(): no value is returned and no further step is taken.
\* So it is for the buffer that holds the four bytes of the header only.
C17_TruncationError ==
  [][(gen # "dump" /\ Len(data') - pos < Asks(ctl.op, data', pos)) =>
       (ctl' = Truncated /\ stack' = << >>)]_vars

\* parse() was given the header and nothing else and ended with the error
\* of read_bytes()
C17_HeaderOnlyTruncated ==
  /\ gen # "dump"
  /\ data = Header
  /\ ctl = Truncated
  /\ pos = 4


\* read_content() is about to read a tag that is TC_EXCEPTION or no tag of
\* the protocol
ReadsBadTag ==
  /\ gen # "dump"
  /\ ctl.op = "read_content"
  /\ pos < Len(data')
  /\ (data'[pos + 1] = TC_EXCEPTION \/ data'[pos + 1] \notin TC_NULL..TC_ENUM)

\* C18: in a session of parse(), wherever a content element is read - at
\* the top, as a field value, as an array element, in an annotation
\* sequence - the tag TC_EXCEPTION and every byte outside 0x70..0x7E end the
\* session with the error of a malformed stream: nothing is returned for the
\* element and no further step is taken.
C18_BadTagRaises ==
  [][ReadsBadTag =>
       /\ ctl'.op = "error"
       /\ ctl'.exc = "ValueError"
       /\ ctl'.why \in {"Exception in stream", "Unknown type code"}
       /\ stack' = << >>
       /\ pos' = pos + 1]_vars

\* a session of parse() has ended on a TC_EXCEPTION, or on a byte that is no
\* tag, read inside another element
C18_BadTagRead ==
  /\ gen # "dump"
  /\ ctl.op = "error"
  /\ ctl.why \in {"Exception in stream", "Unknown type code"}
  /\ log # << >>
  /\ log[Len(log)].e = "tc"
  /\ log[Len(log)].tc \in {TC_EXCEPTION, 127}
  /\ log[Len(log)].depth > 1


\* the step reads a row of a field table, by read_field_desc() or in the
\* loop of dump_new_classdesc(), and the row is of an object or an array and
\* the buffer has the tag of its type string
ReadsTypeString ==
  /\ ctl.op = "read_field_desc" \/ (ctl.op = "dump_fields" /\ ctl.left > 0)
  /\ Len(data) >= pos + 3
  /\ data[pos + 1] \in {76, 91}
  /\ Len(data) > pos + 3 + U16(data[pos + 2], data[pos + 3])

\* the tag in the place of the type string
TypeStringTag == data[pos + 4 + U16(data[pos + 2], data[pos + 3])]

\* a TC_STRING there takes a handle, a TC_REFERENCE takes none, any other tag
\* ends the session with the error of a malformed stream
TypeStringRead ==
  ReadsTypeString =>
    CASE TypeStringTag = TC_STRING -> next_handle' = next_handle + 1
      [] TypeStringTag = TC_REFERENCE -> next_handle' = next_handle
      [] OTHER -> /\ ctl'.op = "error"
                  /\ ctl'.exc = "ValueError"
                  /\ ctl'.why = "Expected string or reference"
                  /\ next_handle' = next_handle

\* C19: whoever reads the field table, parse() or dump(), the type string of
\* a field of an object or of an array is a TC_STRING, which takes a handle,
\* or a TC_REFERENCE, which takes none; any other tag in its place ends the
\* session with the error of a malformed stream.
C19_TypeStringTag == [][TypeStringRead]_vars

\* the same for the sessions of parse() only
C19_ParseTypeStringTag == [][gen # "dump" => TypeStringRead]_vars


\* C20: in a session of parse(), at every moment and for every buffer, the
\* walk from a class descriptor up its super_class ends: no descriptor is
\* its own super class, directly or through others.
C20_SuperChainAcyclic ==
  gen # "dump" =>
    \A i \in 1..Len(heap) :
      heap[i].t = "JavaClassDesc" => Chain(heap, PyObj(i), {}).end # "hang"

(***************************************************************************)
(* Arrays (read_new_array)                                                 *)
(***************************************************************************)
\* the type characters read as fixed-width primitives, and their widths
PrimitiveCodes == {66, 67, 68, 70, 73, 74, 83, 90}

Width(tc) ==
  CASE tc \in {66, 90} -> 1
    [] tc \in {67, 83} -> 2
    [] tc \in {70, 73} -> 4
    [] tc \in {68, 74} -> 8
    [] OTHER -> 0

\* read_new_array() returns: the loop over range(size) is over
ArrayReturned == gen # "dump" /\ ctl.op = "read_array_elements" /\ ctl'.op = "return"

ArrayName(arr) == heap[heap[arr].class_desc.id].name

\* "[" and a type character; a primitive type character ends the name
ArrayNamed(name) ==
  /\ Len(name) >= 2
  /\ name[1] = 91
  /\ name[2] \in PrimitiveCodes => Len(name) = 2

\* where the history has new_handle() for the array
ArrayAllocated(arr) ==
  { n \in 1..Len(log) : /\ log[n].e = "alloc"
                        /\ log[n].kind = "array"
                        /\ log[n].at = arr - 1
                        /\ log[n].h = heap[arr].handle }

\* the tags read since then by the read_content() calls of the array's loop
ElementTags(arr) ==
  LET n == CHOOSE n \in ArrayAllocated(arr) : TRUE
      IsElementTag(ev) == ev.e = "tc" /\ ev.depth = Len(stack) + 1
  IN  SelectSeq(SubSeq(log, n + 1, Len(log)), IsElementTag)

\* the 4-byte length at offset p is n; a negative length is that of no element
LengthIs(p, n) ==
  /\ p >= 0
  /\ LET size == S32(Take(data, p, 4))
     IN  size = n \/ (n = 0 /\ size < 0)

\* the elements are those of the primitive type tc that end where the cursor is
PrimitiveElements(els, tc) ==
  LET n == Len(els)
      first == pos - n * Width(tc)
  IN  /\ LengthIs(first - 4, n)
      /\ \A i \in 1..n : els[i] = ReadPrimitive(data, first + (i - 1) * Width(tc), tc).v

\* the elements are as many as the length says, one for each content element
\* read (a TC_RESET is read on the way to an element)
ContentElements(arr, els) ==
  LET tags == ElementTags(arr)
      IsElement(ev) == ev.tc # TC_RESET
      first == IF tags = << >> THEN pos ELSE tags[1].at
  IN  /\ LengthIs(first - 4, Len(els))
      /\ Len(SelectSeq(tags, IsElement)) = Len(els)

\* C21: when read_new_array() of a parser returns an array whose class is
\* named "[" and a type character t, the array's handle was allocated before
\* its elements were read, the elements are as many as the 4-byte length
\* says, and each is the fixed-width value of type t for a primitive t and
\* one content element for any other t.
C21_ArrayElements ==
  [][ArrayReturned =>
       LET arr == ctl'.val.id
           name == ArrayName(arr)
           els == heap[arr].elements
       IN  ArrayNamed(name) =>
             /\ ArrayAllocated(arr) # {}
             /\ IF name[2] \in PrimitiveCodes
                THEN PrimitiveElements(els, name[2])
                ELSE ContentElements(arr, els)]_vars

\* the array of the int values 1, 2, 3 and an array of two content elements
\* have been read
IsArrayRead(name, n) ==
  /\ gen # "dump"
  /\ ctl.op = "return"
  /\ ctl.val.k = "obj"
  /\ heap[ctl.val.id].t = "JavaArray"
  /\ ArrayName(ctl.val.id) = name
  /\ Len(heap[ctl.val.id].elements) = n

C21_IntArrayRead ==
  /\ IsArrayRead(<<91, 73>>, 3)
  /\ heap[ctl.val.id].elements = <<PyInt(1), PyInt(2), PyInt(3)>>

(***************************************************************************)
(* Primitive field values (read_field_value, the _write_ methods)          *)
(***************************************************************************)
\* read_object_data() of a parser is at a field of a primitive type
AtPrimitiveField ==
  /\ gen # "dump"
  /\ ctl.op = "read_object_data"
  /\ ctl.ci <= Len(ctl.hierarchy)
  /\ ctl.fi <= Len(heap[ctl.hierarchy[ctl.ci]].fields)
  /\ heap[ctl.hierarchy[ctl.ci]].fields[ctl.fi].type_code \in PrimitiveCodes

\* the step reads the field's value from the bytes next to the cursor, as
\* many as the width of the type, and leaves the cursor behind them
ReadsByWidth ==
  LET field == heap[ctl.hierarchy[ctl.ci]].fields[ctl.fi]
      w == Width(field.type_code)
      values == heap'[ctl.obj].field_values
  IN  /\ pos' = pos + w
      /\ \E i \in 1..Len(values) :
           /\ values[i].name = field.name
           /\ values[i].value = ReadPrimitive(Take(data', pos, w), 0, field.type_code).v

\* the values the encoder writes for the primitive fields of its classes
WrittenFor(name) ==
  CASE name = F_loadFactor -> { PyFloat(LoadFactor) }
    [] name = F_threshold -> { PyInt(Threshold(Capacity(16, n))) : n \in 0..(MaxItems + 1) }
    [] name = F_size -> { PyInt(n) : n \in 0..(MaxItems + MaxCommands) }
    [] name = BrownieCommandClass.fields[1][2] -> { PyBool(TRUE) }
    [] name = BrownieCommandClass.fields[2][2] -> { PyBool(FALSE) }
    [] name = BrownieCommandClass.fields[3][2] -> { PyBool(FALSE) }
    [] name = BrownieCommandClass.fields[4][2] -> { PyFloat(<<0, 0, 0, 0, 0, 0, 0, 0>>) }
    [] name = FlowCommandClass.fields[1][2] -> { PyBool(FALSE) }
    [] OTHER -> {}

\* a parser that reads what an encoder session wrote finds, with the widths
\* of the type codes, the values written and the end of the buffer
WrittenByWidth ==
  (closed /\ ctl.op \notin {"write_object", "build", "written", "compile_to_bytes"}) =>
    /\ ctl.op # "error"
    /\ Decoded => pos = Len(data)
    /\ \A i \in 1..Len(heap) :
         heap[i].t = "JavaObject" =>
           \A j \in 1..Len(heap[i].field_values) :
             LET fv == heap[i].field_values[j]
             IN  fv.value.k \in {"int", "int64", "float", "bool"} =>
                   fv.value \in WrittenFor(fv.name)

\* C22: a primitive field value takes the bytes of its type code, 1 for B
\* and Z, 2 for C and S, 4 for I and F, 8 for J and D: a parser reads the
\* value from that many bytes and moves the cursor by as many, and the
\* encoder writes that many for every such field of the classes it writes.
C22_PrimitiveWidths ==
  [][/\ (AtPrimitiveField /\ ctl'.op # "error") => ReadsByWidth
     /\ WrittenByWidth']_vars

\* an object with a short, a char, a long and a byte field has been read
C22_FieldsOfEveryWidthRead ==
  /\ gen # "dump"
  /\ ctl.op = "return"
  /\ ctl.val.k = "obj"
  /\ heap[ctl.val.id].t = "JavaObject"
  /\ LET values == heap[ctl.val.id].field_values
     IN  /\ Len(values) = 4
         /\ { values[i].value.k : i \in 1..4 } = {"int", "str", "int64"}
         /\ pos = Len(ObjectOf(<<Sx, Cc, Jl, By>>)) + 2 + 2 + 8 + 1

(***************************************************************************)
(* Proxy class descriptors (read_new_proxy_class_desc)                     *)
(***************************************************************************)
ReadsProxy == gen # "dump" /\ ctl.op = "read_new_proxy_class_desc"

\* the pieces of the buffer between the offsets a and b
Slices(a, b) == { SubSeq(data, i + 1, j) : i \in a..b, j \in a..b }

\* the count at the cursor and, behind it, the names as read_utf() reads
\* them: each a 2-byte length and as many bytes
InterfacesRead(names) ==
  /\ Len(names) = IF S32(Take(data, pos, 4)) > 0 THEN S32(Take(data, pos, 4)) ELSE 0
  /\ Take(data, pos, pos' - pos) =
       Take(data, pos, 4) \o Cat([i \in 1..Len(names) |-> Utf(names[i])])

\* "$Proxy[", the names with "," between them, "]"
Embeds(names) ==
  <<36, 80, 114, 111, 120, 121, 91>>
    \o Cat([i \in 1..Len(names) |->
              IF i = 1 THEN DecodeStr(names[i]) ELSE <<44>> \o DecodeStr(names[i])])
    \o <<93>>

\* the descriptor made of the names, with the next handle, entered in the
\* table; its class annotations come next
ProxyMade(names) ==
  LET id == Len(heap) + 1
  IN  /\ Len(heap') = id
      /\ heap'[id].t = "JavaClassDesc"
      /\ heap'[id].name = Embeds(names)
      /\ heap'[id].flags = SC_SERIALIZABLE
      /\ heap'[id].fields = << >>
      /\ heap'[id].handle = next_handle
      /\ next_handle' = next_handle + 1
      /\ handles' = Put(handles, next_handle, PyObj(id))
      /\ ctl' = [op |-> "read_class_annotations", cd |-> id, annotations |-> << >>]
      /\ stack' = stack

\* the descriptor was made by read_new_proxy_class_desc()
IsProxy(cd) ==
  \E n \in 1..Len(log) :
    log[n].e = "alloc" /\ log[n].kind = "proxyclassdesc" /\ log[n].at = cd - 1

\* C23: read_new_proxy_class_desc() of a parser makes a descriptor named
\* "$Proxy[i1,...,in]" of the n interface names in the order of the stream,
\* with the flags SC_SERIALIZABLE and no fields; its handle is the next one
\* once the names are read (none is taken when the names end early); then
\* the class annotations are read and then the super class, which is what
\* read_class_desc() returns, as for a named descriptor.
C23_ProxyDescriptor ==
  [][/\ (ReadsProxy /\ ctl'.op # "error") =>
          \E n \in 0..2 : \E names \in [1..n -> Slices(pos, pos')] :
            InterfacesRead(names) /\ ProxyMade(names)
     /\ (ReadsProxy /\ ctl'.op = "error") =>
          next_handle' = next_handle /\ handles' = handles /\ heap' = heap
     /\ (gen # "dump" /\ ctl.op = "read_class_annotations" /\ IsProxy(ctl.cd)
           /\ ctl'.op = "read_class_desc") =>
          stack' = Append(stack, [k |-> "super_class", cd |-> ctl.cd])
     /\ (gen # "dump" /\ ctl.op = "return" /\ stack # << >>
           /\ stack[Len(stack)].k = "super_class" /\ IsProxy(stack[Len(stack)].cd)) =>
          LET cd == stack[Len(stack)].cd
          IN  /\ ctl' = [op |-> "return", val |-> PyObj(cd)]
              /\ heap'[cd] = [heap[cd] EXCEPT !.super_class = ctl.val]
              /\ heap'[cd].flags = SC_SERIALIZABLE
              /\ heap'[cd].fields = << >>]_vars

\* the descriptor of a proxy class of the interfaces "P" and "Q" has been
\* read, with its super class
C23_ProxyOfTwoRead ==
  /\ gen # "dump"
  /\ ctl.op = "return"
  /\ ctl.val.k = "obj"
  /\ heap[ctl.val.id].t = "JavaClassDesc"
  /\ heap[ctl.val.id].name = <<36, 80, 114, 111, 120, 121, 91, 80, 44, 81, 93>>
  /\ \E n \in 1..Len(log) : log[n].e = "class_annotations_end" /\ log[n].cd = ctl.val.id

(***************************************************************************)
(* The encoder's tables (write_string, write_class_desc)                   *)
(***************************************************************************)
\* the session wrote what it was given and raised nothing
Written == ctl.op = "written" /\ enc.err = ""

\* the one new_handle() of the session for the entity of that kind and key
FirstWrite(st, kind, key) ==
  { n \in 1..Len(st.allocs) : st.allocs[n].kind = kind /\ st.allocs[n].key = key }

\* the classes the session's methods write, each with its super classes
RECURSIVE WithSupers(_)
WithSupers(c) == IF c.k = "class" THEN {c} \cup WithSupers(c.super_class) ELSE {}

ClassesWritten ==
  UNION { WithSupers(c) : c \in { HashMapClass, ArrayListClass, CopyOnWriteArrayListClass,
                                  SynchronizedMapClass, SynchronizedListClass,
                                  CommentClass } }

\* texts to write next: some the session may have written, some it has not
TextsToWrite ==
  { <<97>>, <<233>>, <<98>>, << >>, <<107>>, K_tabTitle, K_projectName, T_Object }

\* the write added only a TC_REFERENCE with the handle to the buffer and left
\* the counter and the tables as they were
OnlyReference(st, after, handle) ==
  /\ after.err = ""
  /\ after.buffer = st.buffer \o <<TC_REFERENCE>> \o PackI32(handle)
  /\ after.handle_counter = st.handle_counter
  /\ after.allocs = st.allocs
  /\ after.string_handles = st.string_handles
  /\ after.class_handles = st.class_handles
  /\ after.object_handles = st.object_handles

\* the write added the whole element to the buffer and took the next handle
\* for it, which the table has from then on
FullString(st, after, s) ==
  /\ after.err = ""
  /\ after.buffer = st.buffer \o <<TC_STRING>> \o Utf(EncodeStr(s))
  /\ after.handle_counter = st.handle_counter + 1
  /\ after.string_handles = Put(st.string_handles, s, st.handle_counter)
  /\ FirstWrite(after, "string", s) = { Len(st.allocs) + 1 }
  /\ after.allocs[Len(st.allocs) + 1].h = st.handle_counter

FullClassDesc(st, after, c) ==
  /\ after.err = ""
  /\ Len(after.buffer) > Len(st.buffer) + 5
  /\ SubSeq(after.buffer, 1, Len(st.buffer) + 1) = st.buffer \o <<TC_CLASSDESC>>
  /\ after.handle_counter > st.handle_counter
  /\ after.class_handles[c.class_name] = st.handle_counter
  /\ FirstWrite(after, "class", c.class_name) = { Len(st.allocs) + 1 }
  /\ after.allocs[Len(st.allocs) + 1].h = st.handle_counter

\* what the rule asks of the session st and of one more write in it
Deduplicates(st) ==
  /\ \A n \in 1..Len(st.allocs) :
       st.allocs[n].kind \in {"string", "class"} =>
         /\ FirstWrite(st, st.allocs[n].kind, st.allocs[n].key) = {n}
         /\ LET table == IF st.allocs[n].kind = "string" THEN st.string_handles
                         ELSE st.class_handles
            IN  /\ st.allocs[n].key \in DOMAIN table
                /\ table[st.allocs[n].key] = st.allocs[n].h
  /\ \A s \in TextsToWrite :
       IF s \in DOMAIN st.string_handles
       THEN OnlyReference(st, write_string(st, s), st.string_handles[s])
       ELSE /\ FullString(st, write_string(st, s), s)
            /\ OnlyReference(write_string(st, s), write_string(write_string(st, s), s),
                             st.handle_counter)
  /\ \A c \in ClassesWritten :
       IF c.class_name \in DOMAIN st.class_handles
       THEN OnlyReference(st, write_class_desc(st, c), st.class_handles[c.class_name])
       ELSE /\ FullClassDesc(st, write_class_desc(st, c), c)
            /\ OnlyReference(write_class_desc(st, c),
                             write_class_desc(write_class_desc(st, c), c),
                             st.handle_counter)

ObjectsWritten(class_name) ==
  { n \in 1..Len(enc.allocs) :
      enc.allocs[n].kind = "object" /\ enc.allocs[n].key = class_name }

\* the dicts and the lists that write_object() is given with the graph
DictsGiven ==
  { id \in Range(Visit(graph.nodes, <<graph.root>>, << >>)) : graph.nodes[id].t = "dict" }

ListsGiven ==
  { id \in Range(Visit(graph.nodes, <<graph.root>>, << >>)) : graph.nodes[id].t = "list" }

\* every dict and list of the graph, and the list that _write_tab_hashmap()
\* makes for each tab next to the list of the tab's commands, is written in
\* full with a handle of its own
InstancesInFull ==
  /\ Encoded => /\ Cardinality(ObjectsWritten(N_HashMap)) = Cardinality(DictsGiven)
                /\ Cardinality(ObjectsWritten(N_ArrayList)) = Cardinality(ListsGiven)
  /\ Built => Cardinality(ObjectsWritten(N_ArrayList)) = 2 * Len(graph.root.tabs)

\* C25: each dict or list instance given to an encoder session is written in
\* full with a handle of its own, whatever it holds: a reference is written
\* only for an instance written before in the session.
C25_EachInstanceInFull == Written => InstancesInFull

\* the same for the sessions whose lists all have an address of their own
C25_EachLiveInstanceInFull ==
  (Written /\ (Built => \A i, j \in 1..Len(graph.root.addresses) :
                          graph.root.addresses[i] = graph.root.addresses[j] => i = j))
    => InstancesInFull

\* a session wrote two lists that hold the same
C25_EqualListsWritten ==
  /\ Written
  /\ \/ Built /\ Len(graph.root.tabs) = 2
     \/ Encoded /\ \E i, j \in ListsGiven : i # j /\ graph.nodes[i] = graph.nodes[j]


(***************************************************************************)
(* The end of a written class descriptor (write_class_desc, BWNCompiler)   *)
(***************************************************************************)
\* the session decodes what one of the encoders wrote
ReadsWritten == closed /\ gen # "dump"

\* the decoder stands right after the field table of a descriptor
AfterFieldTable == ctl.op = "read_class_annotations"

\* the decoder stands where the super class of a descriptor is written
AtSuperClass == ctl.op = "read_class_desc" /\ stack # << >> /\ Top.k = "super_class"

\* the byte the decoder stands at
NextByte == IF pos < Len(data) THEN data[pos + 1] ELSE -1

\* the reference the decoder stands at names a class descriptor read before
RefersToClassDesc ==
  LET handle == read_int(data, pos + 1)
      v == HandleGet(handles, handle.v)
  IN  handle.ok /\ v.k = "obj" /\ heap[v.id].t = "JavaClassDesc"

\* C26: every full class descriptor an encoder writes has, right after its
\* field table, one ENDBLOCKDATA and then its super class: a full descriptor,
\* a reference to a descriptor or NULL; this holds down the whole chain, and
\* all that was written is read
C26_DescriptorTail ==
  [][ReadsWritten =>
       /\ AfterFieldTable =>
            /\ ctl.annotations = << >>
            /\ NextByte = TC_ENDBLOCKDATA
            /\ pos' = pos + 1
            /\ ctl'.op = "read_class_desc"
            /\ stack' = Append(stack, [k |-> "super_class", cd |-> ctl.cd])
       /\ AtSuperClass =>
            /\ NextByte \in {TC_NULL, TC_CLASSDESC, TC_REFERENCE}
            /\ NextByte = TC_REFERENCE => RefersToClassDesc
            /\ ctl'.op # "error"
       /\ Decoded' => pos' = Len(data')]_vars

\* the element read where a super class stands, somewhere in the log
SuperRead(tc) ==
  \E i \in 1..(Len(log) - 1) :
    /\ log[i].e = "class_annotations_end"
    /\ log[i + 1].e = "desc"
    /\ log[i + 1].tc = tc

\* a chain of descriptors read to its end: a full super class and a NULL
\* (the classes the encoders know share no super class, so that none is
\* written as a reference)
C26_ChainReadToNull ==
  /\ ReadsWritten
  /\ Decoded
  /\ SuperRead(TC_CLASSDESC)
  /\ SuperRead(TC_NULL)


(***************************************************************************)
(* The data of a written object (write_hashmap, write_arraylist, the       *)
(* builder's writers, BWNCompiler)                                         *)
(***************************************************************************)
\* the tags an encoder writes for the value of the fi-th field of a class,
\* when the field holds a reference: the wrapped map or list in full, the
\* mutex and the list of a wrapper as references, the text of a comment,
\* and nothing for what a command leaves unset
ReferenceTags(class_name, fi) ==
  CASE class_name = SynchronizedMapClass.class_name ->
         IF fi = 1 THEN {TC_OBJECT} ELSE {TC_REFERENCE}
    [] class_name = SynchronizedCollectionClass.class_name ->
         IF fi = 1 THEN {TC_OBJECT} ELSE {TC_REFERENCE}
    [] class_name = SynchronizedListClass.class_name -> {TC_REFERENCE}
    [] class_name = FlowCommandClass.class_name -> {TC_STRING, TC_REFERENCE}
    [] class_name \in {ArgumentClass.class_name, BrownieCommandClass.class_name} ->
         {TC_NULL}
    [] OTHER -> {}

\* the bytes of the value of a field that holds a truth value or a double,
\* as the writers of a command give them
FlagBytes(class_name, fi) ==
  IF class_name = BrownieCommandClass.class_name
  THEN <<<<1>>, <<0>>, <<0>>, <<0, 0, 0, 0, 0, 0, 0, 0>>>>[fi]
  ELSE <<0>>

\* the value found where a field of a written object is due is the one the
\* encoder writes for that field
ValueFits(ev) ==
  LET field == heap[ev.cls].fields[ev.fi]
      class_name == heap[ev.cls].name
  IN  IF field.type_code \in {76, 91}
      THEN ev.at < Len(data) /\ data[ev.at + 1] \in ReferenceTags(class_name, ev.fi)
      ELSE /\ ev.at + Width(field.type_code) <= Len(data)
           /\ field.type_code \in {90, 68} =>
                SubSeq(data, ev.at + 1, ev.at + Width(field.type_code))
                  = FlagBytes(class_name, ev.fi)

\* the events of an object written in full: the steps due for its
\* hierarchy, each field's value where the one before it ended, and an
\* annotation that opens with block data
WrittenInOrder(hierarchy, evs) ==
  /\ [k \in 1..Len(evs) |-> StepOf(evs[k])] = StepsDue(hierarchy)
  /\ \A k \in 1..Len(evs) :
       /\ evs[k].e = "field" =>
            /\ ValueFits(evs[k])
            /\ heap[evs[k].cls].fields[evs[k].fi].type_code \notin {76, 91} =>
                 evs[k + 1].at
                   = evs[k].at + Width(heap[evs[k].cls].fields[evs[k].fi].type_code)
       /\ evs[k].e = "annotations" => data[evs[k].at + 1] = TC_BLOCKDATA
       /\ evs[k].e = "annotations_end" => data[evs[k].at + 1] = TC_ENDBLOCKDATA

\* C27: for every object an encoder writes, the values of the fields follow
\* the descriptor class by class from the root-most superclass to the
\* object's own class, one value for each declared field in the declared
\* order, and an annotation closed by one ENDBLOCKDATA is written for the
\* classes of the hierarchy whose flags have SC_WRITE_METHOD and for no
\* other; a decoder reads the buffer to its end and nothing else is in it.
C27_ValuesInHierarchyOrder ==
  ReadsWritten =>
    /\ ctl.op # "error"
    /\ Decoded =>
         /\ pos = Len(data)
         /\ \A i \in 1..Len(log) :
              log[i].e = "object" =>
                WrittenInOrder(log[i].hierarchy, ObjectEvents(log[i].obj))

\* a Comment, its fields in four classes, and the ArrayList that holds it,
\* a class with an annotation, have been read
C27_CommentInListRead ==
  /\ ReadsWritten
  /\ Decoded
  /\ \E i \in 1..Len(log) :
       /\ log[i].e = "object"
       /\ Len(log[i].hierarchy) = 4
       /\ Len(ObjectEvents(log[i].obj)) = Len(StepsDue(log[i].hierarchy))
  /\ \E i \in 1..Len(log) :
       /\ log[i].e = "annotations_end"
       /\ heap[log[i].cls].name = N_ArrayList


(***************************************************************************)
(* A rejected value (write_object, get_bytes)                              *)
(***************************************************************************)
\* write_object() or build() raised
Aborted == ctl.op = "written" /\ enc.err # ""

\* the session is as JavaObjectOutputStream() made it: the header alone in
\* the buffer, no handle taken, nothing in the three tables
AsBeforeTheCall(st) ==
  /\ get_bytes(st) = get_bytes(NewStream)
  /\ st.handle_counter = NewStream.handle_counter
  /\ st.object_handles = NewStream.object_handles
  /\ st.class_handles = NewStream.class_handles
  /\ st.string_handles = NewStream.string_handles

\* C28: encoding is all or nothing: when the encoder rejects a value it
\* cannot represent, met anywhere in the graph, get_bytes() gives no byte of
\* the aborted call and the handle counter and the three handle tables are
\* as they were before the call.
C28_AllOrNothing == Aborted => AsBeforeTheCall(enc)

\* the same when the value rejected is the one given to write_object(),
\* before which nothing is written
C28_NothingWhenRootRejected ==
  (Aborted /\ graph.root.k \in {"int", "bool", "float"}) => AsBeforeTheCall(enc)

\* a value was rejected inside a container
C28_RejectedInside == Aborted /\ graph.root.k = "node"


(***************************************************************************)
(* Sessions on separate instances (the __init__ of the parsers and of      *)
(* JavaObjectOutputStream)                                                 *)
(***************************************************************************)
\* the encoder session after the calls, made one after the other on a new
\* instance with nothing else going on
RECURSIVE Replay(_)
Replay(calls) ==
  IF calls = << >> THEN NewStream
  ELSE write_object(<< >>, Replay(SubSeq(calls, 1, Len(calls) - 1)), calls[Len(calls)])

\* the two parser instances
Instances == { RunningInstance, other.parked }

\* a parser instance that returned took the handles the encoder of its
\* buffer took, from the base handle on, and no other
OwnHandles(s) ==
  \E G \in PairGraphs :
    LET st == write_object(G.nodes, NewStream, G.root)
    IN  /\ s.data = get_bytes(st)
        /\ s.next_handle = st.handle_counter
        /\ DOMAIN s.handles = { st.allocs[i].h : i \in 1..Len(st.allocs) }
        /\ { s.log[i].h : i \in { j \in 1..Len(s.log) : s.log[j].e = "alloc" } }
             = DOMAIN s.handles

\* what an instance holds when parse() has returned
Outcome(s) == [result |-> s.ctl.result, handles |-> s.handles,
               next_handle |-> s.next_handle, heap |-> s.heap, log |-> s.log]

\* C29: sessions on separate instances are independent: with the steps of
\* two parsers and the calls of two encoders taken in any order, each
\* parser fails at nothing, assigns the handles it assigns alone and
\* returns the same as any parser of the same generation on the same buffer,
\* and each encoder is as after its own calls made alone; no counter and no
\* table is shared.
C29_Independent ==
  /\ \A s \in Instances :
       /\ s.ctl.op # "error"
       /\ s.ctl.op = "done" => OwnHandles(s)
  /\ \A s, t \in Instances :
       (s.ctl.op = "done" /\ t.ctl.op = "done" /\ s.gen = t.gen /\ s.data = t.data)
         => Outcome(s) = Outcome(t)
  /\ enc = Replay(other.calls[1])
  /\ reenc = Replay(other.calls[2])

\* one parser returned, having taken handles after the other, which is half
\* way through a buffer with handles of its own, took its first; both
\* encoders were given a value
C29_ReturnedBesideAnother ==
  /\ ctl.op = "done"
  /\ next_handle > BASE_WIRE_HANDLE + 1
  /\ other.parked.ctl.op \notin {"parse", "done", "error"}
  /\ other.parked.next_handle > BASE_WIRE_HANDLE
  /\ other.parked.pos < Len(other.parked.data)
  /\ Len(other.calls[1]) = MaxCalls
  /\ Len(other.calls[2]) = MaxCalls


(***************************************************************************)
(* What a failure tells the caller (the raise statements of the parsers)   *)
(***************************************************************************)
\* the offsets in the message of the ValueError raised: the offset of the
\* tag for an unknown tag and for a tag that starts no class descriptor
\* (offset = self.stream.tell() ahead of read_byte()), the cursor after the
\* short read for a truncation in the second generation (self.pos()), and
\* none in the other messages
OffsetInMessage ==
  CASE ctl.why \in {"Unknown type code", "Expected class descriptor"} -> {pos - 1}
    [] ctl.why = "Expected n bytes" /\ gen = "v2" -> {pos}
    [] OTHER -> {}

\* the handles in the message of the ValueError raised: no message has one
HandleInMessage == {}

\* parse() raised ValueError
Failed == gen # "dump" /\ ctl.op = "error" /\ ctl.exc = "ValueError"

\* the offset at which a failure occurred: where the tag refused stands,
\* where the bytes ran out, where the header word refused starts
FailureOffset ==
  CASE ctl.why \in {"Invalid stream magic", "Invalid stream version"} -> pos - 2
    [] ctl.why = "Expected n bytes" -> Len(data)
    [] OTHER -> pos - 1

\* the handle given last, if any was
LastHandle == IF next_handle > BASE_WIRE_HANDLE THEN {next_handle - 1} ELSE {}

\* C30: every fatal decode failure (truncation, header mismatch, malformed
\* stream) reaches the caller with the exact byte offset at which it
\* occurred and with the last handle that was decoded.
C30_FailureLocated ==
  Failed => (OffsetInMessage = {FailureOffset} /\ HandleInMessage = LastHandle)

\* what does hold: a message that names an offset names the one of the
\* failure, and a failure ahead of the first handle has no handle to name
C30_NamedOffsetExact ==
  Failed =>
    /\ OffsetInMessage \subseteq {FailureOffset}
    /\ next_handle = BASE_WIRE_HANDLE => HandleInMessage = LastHandle

\* a failure after a handle was given, in a message without an offset
C30_FailedAfterHandle ==
  Failed /\ next_handle > BASE_WIRE_HANDLE /\ OffsetInMessage = {}

(***************************************************************************)
(* BWNPatcher and BWNTemplatePatcher: a buffer taken from a template is    *)
(* changed in place, one string at a time, without decoding it.  Each      *)
(* operation gives the buffer it leaves and what it returns or raises.     *)
(***************************************************************************)
\* the largest length struct.pack('>H', ...) takes
MaxShort == 65535

Returned(d, v) == [data |-> d, ret |-> v]
Raised(d, exc) == [data |-> d, ret |-> [k |-> "raise", exc |-> exc]]

\* data.find(marker, start): the first offset from start on at which the
\* marker stands, -1 if there is none
Find(d, marker, start) ==
  LET at == { i \in start..(Len(d) - Len(marker)) :
                \A j \in 1..Len(marker) : d[i + j] = marker[j] }
  IN  IF at = {} THEN -1 ELSE CHOOSE i \in at : \A j \in at : i <= j

\* data[a:b] of a buffer: the bytes there are from a up to b
Slice(d, a, b) == IF a >= Len(d) THEN << >> ELSE SubSeq(d, a + 1, IF b > Len(d) THEN Len(d) ELSE b)

\* _find_string(data, search_after): the string that stands right behind
\* the first occurrence of the marker
_find_string(d, search_after) ==
  LET idx == Find(d, search_after, 0)
      str_offset == idx + Len(search_after)
      length == U16(d[str_offset + 2], d[str_offset + 3])
      payload == Slice(d, str_offset + 3, str_offset + 3 + length)
  IN  IF idx = -1 THEN [k |-> "none"]
      ELSE IF str_offset >= Len(d) THEN [k |-> "raise", exc |-> "IndexError"]
      ELSE IF d[str_offset + 1] # TC_STRING THEN [k |-> "none"]
      ELSE IF Len(d) - str_offset < 3 THEN [k |-> "raise", exc |-> "struct.error"]
      ELSE IF ~Utf8Valid(payload, 1) THEN [k |-> "raise", exc |-> "UnicodeDecodeError"]
      ELSE [k |-> "loc", offset |-> str_offset, length |-> length,
            value |-> Utf8Points(payload, 1), end_offset |-> str_offset + 3 + length]

\* the buffer with the bytes from old_end on moved behind a new length and
\* a new payload, the length taken modulo 65536
SpliceMasked(d, offset, new_bytes, old_end) ==
  Slice(d, 0, offset + 1) \o PackU16(Len(new_bytes) % (MaxShort + 1)) \o new_bytes
    \o Slice(d, old_end, Len(d))

\* data[:offset + 1] + new_length + new_bytes + data[old_end:]
Splice(d, offset, new_bytes, old_end) ==
  Slice(d, 0, offset + 1) \o PackU16(Len(new_bytes)) \o new_bytes
    \o Slice(d, old_end, Len(d))

\* _replace_string(marker, new_value)
_replace_string(d, marker, new_value) ==
  LET loc == _find_string(d, marker)
      new_bytes == EncodeStr(new_value)
  IN  IF loc.k = "raise" THEN Raised(d, loc.exc)
      ELSE IF loc.k = "none" THEN Returned(d, PyBool(FALSE))
      ELSE IF Len(new_bytes) > MaxShort THEN Raised(d, "struct.error")
      ELSE Returned(Splice(d, loc.offset, new_bytes, loc.end_offset), PyBool(TRUE))

\* _replace_string_at_offset(offset, new_value)
_replace_string_at_offset(d, offset, new_value) ==
  LET old_length == U16(d[offset + 2], d[offset + 3])
      old_end == offset + 3 + old_length
      new_bytes == EncodeStr(new_value)
  IN  IF offset >= Len(d) THEN Raised(d, "IndexError")
      ELSE IF d[offset + 1] # TC_STRING THEN Returned(d, PyBool(FALSE))
      ELSE IF Len(d) - offset < 3 THEN Raised(d, "struct.error")
      ELSE IF Len(new_bytes) > MaxShort THEN Raised(d, "struct.error")
      ELSE Returned(Splice(d, offset, new_bytes, old_end), PyBool(TRUE))

\* BWNTemplatePatcher._patch_project_name(old_path, new_path, new_name):
\* the bytes of the file at new_path; the two length bytes are
\* (n >> 8) & 0xFF and n & 0xFF
_patch_project_name(d, new_name) ==
  LET new_name_bytes == EncodeStr(new_name)
      idx == Find(d, K_projectName, 0)
      search_start == idx + Len(K_projectName)
      old_length == U16(d[search_start + 2], d[search_start + 3])
      old_string_end == search_start + 3 + old_length
  IN  IF idx = -1 THEN Returned(d, PyNone)
      ELSE IF search_start >= Len(d) THEN Raised(d, "IndexError")
      ELSE IF d[search_start + 1] # TC_STRING THEN Returned(d, PyNone)
      ELSE IF Len(d) - search_start < 3 THEN Raised(d, "IndexError")
      ELSE Returned(SpliceMasked(d, search_start, new_name_bytes, old_string_end), PyNone)

\* str.isprintable() for one character: the controls, the separators other
\* than the space and the soft hyphen are not printable (code points up to
\* U+00FF; the others the sessions use are letters)
IsPrintable(c) == c >= 32 /\ c \notin 127..160 /\ c # 173

\* '\u3000' <= c <= '\u9fff'
IsCJK(c) == c >= 12288 /\ c <= 40959

\* find_all_strings(): at every offset i < len(data) - 3 that holds 0x74, a
\* length between 1 and 500 that fits the buffer and a payload that
\* decodes to printable or CJK text; the offsets found
StringOffsets(d) ==
  { i \in 0..(Len(d) - 4) :
      /\ d[i + 1] = TC_STRING
      /\ LET length == U16(d[i + 2], d[i + 3])
             payload == Slice(d, i + 3, i + 3 + length)
         IN  /\ 1 <= length
             /\ length <= 500
             /\ i + 3 + length <= Len(d)
             /\ Utf8Valid(payload, 1)
             /\ LET value == Utf8Points(payload, 1)
                IN  \/ \A j \in 1..Len(value) : IsPrintable(value[j])
                    \/ \E j \in 1..Len(value) : IsCJK(value[j]) }

\* the StringLocation find_all_strings() makes for offset i
StringAt(d, i) ==
  LET length == U16(d[i + 2], d[i + 3])
  IN  [offset |-> i, length |-> length,
       value |-> Utf8Points(Slice(d, i + 3, i + 3 + length), 1),
       end_offset |-> i + 3 + length]

\* the members of a set of offsets, greatest first
RECURSIVE Descending(_)
Descending(S) ==
  IF S = {} THEN << >>
  ELSE LET top == CHOOSE i \in S : \A j \in S : j <= i
       IN  <<top>> \o Descending(S \ {top})

\* the loop of replace_string() over the offsets found before the first
\* replacement
RECURSIVE ReplaceEach(_, _, _, _, _)
ReplaceEach(d, matching, new_value, count, replaced) ==
  IF matching = << >> THEN Returned(d, PyInt(replaced))
  ELSE IF count # -1 /\ replaced >= count THEN Returned(d, PyInt(replaced))
  ELSE LET r == _replace_string_at_offset(d, Head(matching), new_value)
       IN  IF r.ret.k = "raise" THEN r
           ELSE ReplaceEach(r.data, Tail(matching), new_value, count,
                            IF r.ret.t THEN replaced + 1 ELSE replaced)

\* the offsets at which find_all_strings() found old_value
Matching(d, old_value) ==
  { i \in StringOffsets(d) : StringAt(d, i).value = old_value }

\* replace_string(old_value, new_value, count): matching.sort(key=offset,
\* reverse=True), then one _replace_string_at_offset() for each
replace_string(d, old_value, new_value, count) ==
  ReplaceEach(d, Descending(Matching(d, old_value)), new_value, count, 0)

\* the loop of set_tab_title(): for every occurrence of the marker from idx
\* on, loc = _find_string(data, marker), which starts at the front of the
\* buffer every time
RECURSIVE TabTitleLoop(_, _, _, _)
TabTitleLoop(d, idx, old_title, new_title) ==
  LET at == Find(d, K_tabTitle, idx)
      loc == _find_string(d, K_tabTitle)
  IN  IF at = -1 THEN Returned(d, PyBool(FALSE))
      ELSE IF loc.k = "raise" THEN Raised(d, loc.exc)
      ELSE IF loc.k = "loc" /\ loc.value = old_title
      THEN LET r == _replace_string_at_offset(d, loc.offset, new_title)
           IN  IF r.ret.k = "raise" THEN r ELSE Returned(r.data, PyBool(TRUE))
      ELSE TabTitleLoop(d, at + Len(K_tabTitle), old_title, new_title)

\* set_tab_title(old_title, new_title)
set_tab_title(d, old_title, new_title) == TabTitleLoop(d, 0, old_title, new_title)

(***************************************************************************)
(* A session with the tools.  A parser is given a buffer and decodes it;   *)
(* when parse() has returned or raised, one of the patcher's operations is *)
(* applied to the buffer and a new parser of the same generation is given  *)
(* the buffer it leaves.  other holds the call, what it returned, the      *)
(* buffer before it and the parser that decoded that buffer.               *)
(***************************************************************************)
MaxPatches == 1

\* a script of two tabs, titled a and b
TwoTabs ==
  [k |-> "script", project_name |-> <<112>>,
   tabs |-> << [tabTitle |-> <<97>>, commands |-> << >>],
               [tabTitle |-> <<98>>, commands |-> << >>] >>,
   addresses |-> <<1, 2>>]

\* the buffers the sessions start from: two titled strings one after the
\* other; a list that holds one string twice; the script of two tabs; a
\* block of four bytes that read as a string; an empty string; an array of
\* two strings of the same text; an object of a class that has an empty
\* string among its annotations and a reference to it for a super class
PatchBuffers ==
  { Header \o Str(K_tabTitle) \o Str(<<97>>) \o Str(K_tabTitle) \o Str(<<98>>),
    get_bytes(write_object(<< PyList(<<PyStr(<<97>>), PyStr(<<97>>)>>) >>, NewStream,
                           PyNode(1))),
    get_bytes(build(<< PyList(<< >>), PyList(<< >>) >>, TwoTabs)),
    Header \o <<TC_BLOCKDATA, 4>> \o Str(<<97>>),
    Header \o Str(<< >>),
    ArrayOf(<<91, 76>>) \o <<0, 0, 0, 2>> \o Str(<<97>>) \o Str(<<97>>),
    Header \o <<TC_OBJECT>> \o CD(NameA, Plain, << >>) \o Str(<< >>)
      \o <<TC_ENDBLOCKDATA>> \o Ref(1) }

\* the new values: none, one letter, one kana (three bytes)
NewValues == { << >>, <<98>>, <<12354>> }

\* a name of 65536 letters
LongName == [i \in 1..(MaxShort + 1) |-> 98]

\* the values looked for
OldValues == { << >>, <<97>>, <<98>>, K_tabTitle }

Unparked == [k |-> "none"]

InitTools ==
  /\ gen \in {"v1", "v2"}
  /\ data \in PatchBuffers
  /\ closed = TRUE
  /\ fed = 0
  /\ pos = 0
  /\ handles = EmptyMap
  /\ next_handle = BASE_WIRE_HANDLE
  /\ heap = << >>
  /\ ctl = Call("parse")
  /\ stack = << >>
  /\ log = << >>
  /\ graph = NoGraph
  /\ enc = NewStream
  /\ reenc = NewStream
  /\ other = [k |-> "tools", patches |-> 0, call |-> [op |-> "none"], ret |-> PyNone,
              before |-> << >>, parked |-> Unparked]

\* a call of the patcher, r what it gives, then, unless the call raised,
\* JavaSerializationParser(patcher.bwn_data).parse()
Patch(call, r) ==
  /\ data' = r.data
  /\ other' = [k |-> "tools", patches |-> other.patches + 1, call |-> call, ret |-> r.ret,
               before |-> data, parked |-> RunningInstance]
  /\ IF r.ret.k = "raise"
     THEN UNCHANGED << fed, pos, handles, next_handle, heap, ctl, stack, log >>
     ELSE /\ fed' = 0
          /\ pos' = 0
          /\ handles' = EmptyMap
          /\ next_handle' = BASE_WIRE_HANDLE
          /\ heap' = << >>
          /\ ctl' = Call("parse")
          /\ stack' = << >>
          /\ log' = << >>
  /\ UNCHANGED << gen, closed, graph, enc, reenc >>

CanPatch == other.k = "tools" /\ other.patches < MaxPatches /\ ctl.op \in {"done", "error"}

\* the offsets that hold 0x74, and the first offset
TagOffsets == { i \in 0..(Len(data) - 1) : data[i + 1] = TC_STRING } \cup {0}

ReplaceStringAtOffset ==
  /\ CanPatch
  /\ \E offset \in TagOffsets : \E new_value \in NewValues \cup {LongName} :
       Patch([op |-> "_replace_string_at_offset", offset |-> offset, new_value |-> new_value],
             _replace_string_at_offset(data, offset, new_value))

\* set_project_name(new_name): _replace_string(b'projectName', new_name)
SetProjectName ==
  /\ CanPatch
  /\ \E new_value \in NewValues \cup {LongName} :
       Patch([op |-> "set_project_name", new_value |-> new_value],
             _replace_string(data, K_projectName, new_value))

\* BWNTemplatePatcher._patch_project_name() on a file that holds the buffer
PatchProjectName ==
  /\ CanPatch
  /\ \E new_value \in NewValues \cup {LongName} :
       Patch([op |-> "_patch_project_name", new_value |-> new_value],
             _patch_project_name(data, new_value))

SetTabTitle ==
  /\ CanPatch
  /\ \E old_title \in OldValues : \E new_title \in NewValues :
       Patch([op |-> "set_tab_title", old_value |-> old_title, new_value |-> new_title],
             set_tab_title(data, old_title, new_title))

ReplaceString ==
  /\ CanPatch
  /\ \E old_value \in OldValues : \E new_value \in NewValues : \E count \in {-1, 1} :
       Patch([op |-> "replace_string", old_value |-> old_value, new_value |-> new_value,
              count |-> count],
             replace_string(data, old_value, new_value, count))

NextTools ==
  \/ ReplaceStringAtOffset
  \/ SetProjectName
  \/ PatchProjectName
  \/ SetTabTitle
  \/ ReplaceString
  \/ Parse
  \/ ParseReturn
  \/ ReadContent
  \/ ReadNewString
  \/ ReadPrevObject
  \/ ReadBlockData
  \/ ReadClassDesc
  \/ ReadNewClassDesc
  \/ ReadFieldDesc
  \/ ReadClassAnnotations
  \/ ClassAnnotationContent
  \/ SuperClassDesc
  \/ ReadNewObject
  \/ NewObjectClassDesc
  \/ ReadObjectData
  \/ FieldValueContent
  \/ ReadObjectAnnotations
  \/ ObjectAnnotationContent
  \/ ReadNewArray
  \/ NewArrayClassDesc
  \/ ReadArrayElement
  \/ ArrayElementContent

SpecTools == InitTools /\ [][NextTools]_vars


(***************************************************************************)
(* What the specification says of the patchers                             *)
(***************************************************************************)
\* the offset of the STRING tag whose string the session's call replaced,
\* if it replaced one
PatchedAt ==
  IF other.k # "tools" \/ other.ret.k = "raise" THEN {}
  ELSE IF other.call.op = "_replace_string_at_offset" /\ other.ret = PyBool(TRUE)
  THEN {other.call.offset}
  ELSE IF other.call.op = "set_project_name" /\ other.ret = PyBool(TRUE)
  THEN {_find_string(other.before, K_projectName).offset}
  ELSE IF /\ other.call.op = "_patch_project_name"
          /\ Find(other.before, K_projectName, 0) # -1
          /\ Slice(other.before, Find(other.before, K_projectName, 0) + Len(K_projectName),
                   Find(other.before, K_projectName, 0) + Len(K_projectName) + 1)
               = <<TC_STRING>>
  THEN {Find(other.before, K_projectName, 0) + Len(K_projectName)}
  ELSE {}

\* the buffer is the one before the call up to offset p, then the length
\* of v's bytes on two bytes, v's bytes, and what followed the old payload
Frame(p, v) ==
  LET b == other.before
      old_end == p + 3 + U16(b[p + 2], b[p + 3])
      new_bytes == EncodeStr(v)
  IN  /\ Slice(data, 0, p + 1) = Slice(b, 0, p + 1)
      /\ Len(data) >= p + 3
      /\ U16(data[p + 2], data[p + 3]) = Len(new_bytes)
      /\ Slice(data, p + 3, p + 3 + Len(new_bytes)) = new_bytes
      /\ Slice(data, p + 3 + Len(new_bytes), Len(data)) = Slice(b, old_end, Len(b))

\* C31: a raw string patch at the STRING tag at offset p leaves the bytes
\* 0..p as they were, writes the UTF-8 length of the new value on two
\* bytes and then its bytes, and keeps what followed the old payload right
\* behind the new one, for every new value the patcher accepts
C31_PatchFrame == \A p \in PatchedAt : Frame(p, other.call.new_value)

\* the same for the new values of at most 65535 bytes
C31_PatchFrameOfShort ==
  \A p \in PatchedAt :
    Len(EncodeStr(other.call.new_value)) <= MaxShort => Frame(p, other.call.new_value)

\* a string was replaced by one of another length, with bytes behind it
C31_PatchedBeforeTail ==
  \E p \in PatchedAt :
    /\ Len(EncodeStr(other.call.new_value)) = 3
    /\ Len(data) > p + 6
    /\ Len(data) # Len(other.before)


\* the offsets of buffer b at which the marker stands
Occurrences(b, marker) ==
  { i \in 0..(Len(b) - Len(marker)) : \A j \in 1..Len(marker) : b[i + j] = marker[j] }

\* the value of the STRING that stands at offset p of buffer b, if one does
StringValueAt(b, p) ==
  IF p + 3 > Len(b) \/ Slice(b, p, p + 1) # <<TC_STRING>> THEN {}
  ELSE LET payload == Slice(b, p + 3, p + 3 + U16(b[p + 2], b[p + 3]))
       IN  IF Len(payload) = U16(b[p + 2], b[p + 3]) /\ Utf8Valid(payload, 1)
           THEN {Utf8Points(payload, 1)} ELSE {}

\* the markers 'tabTitle' of the buffer before the call that a STRING equal
\* to title follows directly
TabsTitled(title) ==
  { i \in Occurrences(other.before, K_tabTitle) :
      title \in StringValueAt(other.before, i + Len(K_tabTitle)) }

SetTabTitleReturned ==
  other.k = "tools" /\ other.call.op = "set_tab_title" /\ other.ret.k = "bool"

\* C38: set_tab_title(old_title, new_title) returns True and changes the
\* title whenever some marker 'tabTitle' of the buffer is directly followed
\* by a STRING equal to old_title, the first or a later one; it returns
\* False, with the buffer unchanged, only when no marker is
C38_AnyTabRetitled ==
  SetTabTitleReturned =>
    /\ TabsTitled(other.call.old_value) # {} =>
         /\ other.ret.t
         /\ \E i \in TabsTitled(other.call.old_value) :
              Frame(i + Len(K_tabTitle), other.call.new_value)
    /\ ~other.ret.t => TabsTitled(other.call.old_value) = {} /\ data = other.before

\* the same of the first marker alone: True, and the title behind the first
\* marker replaced, exactly when old_title follows the first marker
C38_FirstTabRetitled ==
  SetTabTitleReturned =>
    LET first == Find(other.before, K_tabTitle, 0)
        titled == first # -1 /\ first \in TabsTitled(other.call.old_value)
    IN  /\ other.ret.t = titled
        /\ titled => Frame(first + Len(K_tabTitle), other.call.new_value)
        /\ ~titled => data = other.before

\* set_tab_title() was given the title of the second of two tabs
C38_SecondTabAsked ==
  /\ SetTabTitleReturned
  /\ \E i \in TabsTitled(other.call.old_value) : i # Find(other.before, K_tabTitle, 0)


\* the parser that decoded the buffer before the call read all of it
DecodedBefore ==
  /\ other.k = "tools"
  /\ other.patches > 0
  /\ other.parked.ctl.op = "done"
  /\ other.parked.pos = Len(other.before)

\* the offsets of the STRING elements read_content() met in the buffer
\* before the call
StringElements ==
  { ev.at : ev \in { e \in Range(other.parked.log) : e.e = "tc" /\ e.tc = TC_STRING } }

\* those whose value is the text
ElementsEqual(value) == { p \in StringElements : value \in StringValueAt(other.before, p) }

\* the buffer with the strings at the offsets of a set replaced by v
RECURSIVE SpliceAll(_, _, _)
SpliceAll(b, offsets, v) ==
  IF offsets = << >> THEN b
  ELSE LET p == Head(offsets)
       IN  SpliceAll(Splice(b, p, EncodeStr(v), p + 3 + U16(b[p + 2], b[p + 3])),
                     Tail(offsets), v)

ReplaceStringReturned ==
  DecodedBefore /\ other.call.op = "replace_string" /\ other.ret.k = "int"

\* the number replace_string() is to replace of m strings
Due(count, m) == IF count = -1 \/ count >= m THEN m ELSE count

\* C39: replace_string(old_value, new_value, count) replaces min(count, m)
\* of the m STRING elements equal to old_value, all of them for count -1,
\* returns that number and leaves every other byte of the buffer alone
C39_ReplacesElements ==
  ReplaceStringReturned =>
    LET equal == ElementsEqual(other.call.old_value)
        due == Due(other.call.count, Cardinality(equal))
    IN  /\ other.ret.n = due
        /\ \E chosen \in SUBSET equal :
             /\ Cardinality(chosen) = due
             /\ data = SpliceAll(other.before, Descending(chosen), other.call.new_value)

\* the same when find_all_strings() finds old_value at the offsets of the
\* STRING elements equal to it and nowhere else
C39_ReplacesElementsFound ==
  (ReplaceStringReturned
     /\ Matching(other.before, other.call.old_value) = ElementsEqual(other.call.old_value)) =>
    LET equal == ElementsEqual(other.call.old_value)
        due == Due(other.call.count, Cardinality(equal))
    IN  /\ other.ret.n = due
        /\ \E chosen \in SUBSET equal :
             /\ Cardinality(chosen) = due
             /\ data = SpliceAll(other.before, Descending(chosen), other.call.new_value)

\* one of two equal strings was replaced by a longer one
C39_OneOfTwoReplaced ==
  /\ ReplaceStringReturned
  /\ Matching(other.before, other.call.old_value) = ElementsEqual(other.call.old_value)
  /\ Cardinality(ElementsEqual(other.call.old_value)) = 2
  /\ other.call.count = 1
  /\ other.ret.n = 1
  /\ Len(data) > Len(other.before)


\* _replace_string_at_offset() replaced a STRING element of a buffer that
\* had been decoded, and the buffer it left has been given to a parser
\* that has ended
ElementPatched ==
  /\ other.k = "tools"
  /\ other.call.op = "_replace_string_at_offset"
  /\ other.ret = PyBool(TRUE)
  /\ other.parked.ctl.op = "done"
  /\ other.call.offset \in StringElements
  /\ ~Running

\* the value the element had
OldValue == CHOOSE s \in StringValueAt(other.before, other.call.offset) : TRUE

\* v is u, or the new value where u is the old one
RECURSIVE Repatched(_, _)
Repatched(u, v) ==
  \/ u = v
  \/ u = PyStr(OldValue) /\ v = PyStr(other.call.new_value)
  \/ /\ u.k = "JavaReference"
     /\ v.k = "JavaReference"
     /\ u.handle = v.handle
     /\ Repatched(u.resolved, v.resolved)

RepatchedAll(us, vs) ==
  Len(us) = Len(vs) /\ \A i \in 1..Len(us) : Repatched(us[i], vs[i])

\* an object of the heap after the patch is the one before it, but for the
\* patched string
RepatchedEntry(a, b) ==
  /\ a.t = b.t
  /\ a.handle = b.handle
  /\ CASE a.t = "JavaClassDesc" ->
            /\ a.name = b.name
            /\ a.serial_version_uid = b.serial_version_uid
            /\ a.flags = b.flags
            /\ Len(a.fields) = Len(b.fields)
            /\ \A i \in 1..Len(a.fields) :
                 /\ a.fields[i].type_code = b.fields[i].type_code
                 /\ a.fields[i].name = b.fields[i].name
                 /\ Repatched(a.fields[i].class_name, b.fields[i].class_name)
            /\ Repatched(a.super_class, b.super_class)
            /\ RepatchedAll(a.annotations, b.annotations)
       [] a.t = "JavaObject" ->
            /\ a.class_desc = b.class_desc
            /\ Len(a.field_values) = Len(b.field_values)
            /\ \A i \in 1..Len(a.field_values) :
                 /\ a.field_values[i].name = b.field_values[i].name
                 /\ Repatched(a.field_values[i].value, b.field_values[i].value)
            /\ RepatchedAll(a.annotations, b.annotations)
       [] a.t = "JavaArray" ->
            /\ a.class_desc = b.class_desc
            /\ RepatchedAll(a.elements, b.elements)
       [] OTHER -> a = b

AllocsOf(lg) == SelectSeq(lg, LAMBDA ev : ev.e = "alloc")
RefsOf(lg) == SelectSeq(lg, LAMBDA ev : ev.e = "ref")

\* the patched buffer is decoded to the graph of the buffer before it, the
\* patched string apart: the same handles for the same entities, every
\* reference to the same handle
SameButPatched ==
  /\ ctl.op = "done"
  /\ next_handle = other.parked.next_handle
  /\ AllocsOf(log) = AllocsOf(other.parked.log)
  /\ DOMAIN handles = DOMAIN other.parked.handles
  /\ \A h \in DOMAIN handles : Repatched(other.parked.handles[h], handles[h])
  /\ Len(RefsOf(log)) = Len(RefsOf(other.parked.log))
  /\ \A i \in 1..Len(RefsOf(log)) :
       /\ RefsOf(log)[i].handle = RefsOf(other.parked.log)[i].handle
       /\ Repatched(RefsOf(other.parked.log)[i].found, RefsOf(log)[i].found)
  /\ Len(heap) = Len(other.parked.heap)
  /\ \A i \in 1..Len(heap) : RepatchedEntry(other.parked.heap[i], heap[i])
  /\ Repatched(other.parked.ctl.result, ctl.result)

\* C37: when a buffer decodes and the payload of one of its STRING elements
\* is replaced by a value of at most 65535 bytes, the patched buffer
\* decodes, every entity keeps its handle, every reference resolves to the
\* same entity and the graph differs in the patched string alone
C37_PatchKeepsGraph == ElementPatched => SameButPatched

\* the same for the first parser
C37_PatchKeepsGraphFirst == (ElementPatched /\ gen = "v1") => SameButPatched

\* the same for the second parser when no reference to a string stands
\* where a super class is read
C37_PatchKeepsGraphOfClasses ==
  (ElementPatched
     /\ \A i \in 1..Len(other.parked.heap) :
          other.parked.heap[i].t = "JavaClassDesc"
            => other.parked.heap[i].super_class.k # "str") => SameButPatched

\* a string to which a reference follows was given a value of another length
C37_ReferredStringPatched ==
  /\ ElementPatched
  /\ ctl.op = "done"
  /\ Len(data) # Len(other.before)
  /\ \E i \in 1..Len(log) :
       /\ log[i].e = "ref"
       /\ log[i].found = PyStr(other.call.new_value)


(***************************************************************************)
(* The two parsers on one buffer.  bwn_parser.py decodes a buffer as it is *)
(* fed; when it has ended, bwn_parser_v2.py is given the bytes it was fed, *)
(* and other.parked holds the first parser as it ended.                    *)
(***************************************************************************)
InitBoth ==
  /\ gen = "v1"
  /\ fed = 0
  /\ pos = 0
  /\ handles = EmptyMap
  /\ next_handle = BASE_WIRE_HANDLE
  /\ heap = << >>
  /\ stack = << >>
  /\ log = << >>
  /\ enc = NewStream
  /\ reenc = NewStream
  /\ other = [k |-> "both", parked |-> Unparked]
  /\ closed = FALSE
  /\ data \in Seeds
  /\ graph = NoGraph
  /\ ctl = Call("parse")

\* bwn_parser_v2.JavaSerializationParser(data).parse() on the bytes the
\* first parser was given
SecondParser ==
  /\ other.k = "both"
  /\ other.parked = Unparked
  /\ ctl.op \in {"done", "error", "hang"}
  /\ gen' = "v2"
  /\ closed' = TRUE
  /\ fed' = 0
  /\ pos' = 0
  /\ handles' = EmptyMap
  /\ next_handle' = BASE_WIRE_HANDLE
  /\ heap' = << >>
  /\ ctl' = Call("parse")
  /\ stack' = << >>
  /\ log' = << >>
  /\ other' = [other EXCEPT !.parked = RunningInstance]
  /\ UNCHANGED << data, graph, enc, reenc >>

NextBoth ==
  \/ SecondParser
  \/ Parse
  \/ ParseReturn
  \/ ReadContent
  \/ ReadNewString
  \/ ReadNewLongString
  \/ ReadPrevObject
  \/ ReadBlockData
  \/ ReadBlockDataLong
  \/ ReadClassDesc
  \/ ReadNewClassDesc
  \/ ReadFieldDesc
  \/ ReadClassAnnotations
  \/ ClassAnnotationContent
  \/ SuperClassDesc
  \/ ReadNewProxyClassDesc
  \/ ReadNewObject
  \/ NewObjectClassDesc
  \/ ReadObjectData
  \/ FieldValueContent
  \/ ReadObjectAnnotations
  \/ ObjectAnnotationContent
  \/ ReadNewArray
  \/ NewArrayClassDesc
  \/ ReadArrayElement
  \/ ArrayElementContent
  \/ ReadNewEnum
  \/ NewEnumClassDesc
  \/ EnumConstantContent
  \/ ReadNewClass
  \/ NewClassClassDesc

SpecBoth == InitBoth /\ [][NextBoth]_vars

\* both parsers have ended on the buffer
BothEnded == other.k = "both" /\ other.parked # Unparked /\ ~Running

\* neither parser read a TC_RESET where a tag stands
NoResetRead ==
  \A ev \in Range(log) \cup Range(other.parked.log) :
    ev.e = "tc" => ev.tc # TC_RESET

\* the handles a parser gave, with the kind of entity each was given to
Numbering(lg) == [i \in 1..Len(AllocsOf(lg)) |->
                    [h |-> AllocsOf(lg)[i].h, kind |-> AllocsOf(lg)[i].kind]]

\* both fail, or both return with the same handles for the same entities
\* at the same offset
Agree ==
  /\ (ctl.op = "done") = (other.parked.ctl.op = "done")
  /\ ctl.op = "done" =>
       /\ Numbering(log) = Numbering(other.parked.log)
       /\ pos = other.parked.pos

\* C36: on a stream without a RESET tag the two parsers both fail or both
\* succeed, and when they succeed they have given the same handles to the
\* same entities and stopped at the same offset
C36_GenerationsAgree == (BothEnded /\ NoResetRead) => Agree

\* both parsers returned an object decoded from the same bytes
C36_BothReturnedObject ==
  /\ BothEnded
  /\ NoResetRead
  /\ ctl.op = "done"
  /\ other.parked.ctl.op = "done"
  /\ \E ev \in Range(log) : ev.e = "alloc" /\ ev.kind = "object"


\* the same of the streams on which both parsers return
C36_AgreeWhenBothReturn ==
  (BothEnded /\ NoResetRead /\ ctl.op = "done" /\ other.parked.ctl.op = "done") =>
    /\ Numbering(log) = Numbering(other.parked.log)
    /\ pos = other.parked.pos


(***************************************************************************)
(* parse() on a whole buffer, the steps taken as long as there is one: a   *)
(* call that has begun goes on until it returns, raises or stays in a loop *)
(***************************************************************************)
\* an object whose class names itself as its super class, and one whose
\* class has a super class that names the first as its own
CyclicChains ==
  { Header \o <<TC_OBJECT>> \o CD(NameA, Plain, << >>) \o <<TC_ENDBLOCKDATA>> \o Ref(0),
    Header \o <<TC_OBJECT>> \o CD(NameB, Plain, <<Ix>>) \o <<TC_ENDBLOCKDATA>>
      \o CD(NameA, Plain, << >>) \o <<TC_ENDBLOCKDATA>> \o Ref(0) }

\* buffers with a long string, a long block, an enum constant, a class
\* object of a proxy descriptor, an object that is its own field, and an
\* array that is its own element with a reference to itself after it
WholeStreams ==
  { Header \o <<TC_LONGSTRING, 0, 0, 0, 0, 0, 0, 0, 1, 97>>,
    Header \o <<TC_BLOCKDATALONG, 0, 0, 0, 1, 7>> \o Str(<<97>>),
    Header \o <<TC_ENUM>> \o CD(NameA, Plain, << >>) \o <<TC_ENDBLOCKDATA, TC_NULL>>
      \o Str(<<97>>) \o Ref(1),
    Header \o <<TC_CLASS, TC_PROXYCLASSDESC, 0, 0, 0, 1>> \o Utf(<<80>>)
      \o <<TC_ENDBLOCKDATA, TC_NULL>>,
    ObjectOf(<<Lo>>) \o Ref(2),
    ObjectOf(<<Ix>>) \o <<0, 0, 0, 2>> \o Ref(1),
    Header \o <<TC_OBJECT>> \o CD(NameA, Custom, << >>) \o <<TC_ENDBLOCKDATA, TC_NULL>>
      \o Ref(1) \o Str(<<97>>) \o <<TC_ENDBLOCKDATA>>,
    ArrayOf(<<91, 76, 84, 59>>) \o <<0, 0, 0, 2>> \o Ref(1) \o Ref(1) \o Ref(1) }

LiveStreams == Seeds \cup PatchBuffers \cup CyclicChains \cup WholeStreams

InitLive ==
  /\ gen \in {"v1", "v2"}
  /\ data \in LiveStreams
  /\ closed = TRUE
  /\ fed = 0
  /\ pos = 0
  /\ handles = EmptyMap
  /\ next_handle = BASE_WIRE_HANDLE
  /\ heap = << >>
  /\ ctl = Call("parse")
  /\ stack = << >>
  /\ log = << >>
  /\ graph = NoGraph
  /\ enc = NewStream
  /\ reenc = NewStream
  /\ other = Alone

NextLive ==
  \/ Parse
  \/ ParseReturn
  \/ ReadContent
  \/ ReadNewString
  \/ ReadNewLongString
  \/ ReadPrevObject
  \/ ReadBlockData
  \/ ReadBlockDataLong
  \/ ReadClassDesc
  \/ ReadNewClassDesc
  \/ ReadFieldDesc
  \/ ReadClassAnnotations
  \/ ClassAnnotationContent
  \/ SuperClassDesc
  \/ ReadNewProxyClassDesc
  \/ ReadNewObject
  \/ NewObjectClassDesc
  \/ ReadObjectData
  \/ FieldValueContent
  \/ ReadObjectAnnotations
  \/ ObjectAnnotationContent
  \/ ReadNewArray
  \/ NewArrayClassDesc
  \/ ReadArrayElement
  \/ ArrayElementContent
  \/ ReadNewEnum
  \/ NewEnumClassDesc
  \/ EnumConstantContent
  \/ ReadNewClass
  \/ NewClassClassDesc

SpecLive == InitLive /\ [][NextLive]_vars /\ WF_vars(NextLive)

\* parse() has returned or raised
ParseEnded == ctl.op \in {"done", "error"}

\* read_object_data() walks a chain of super classes that comes back to
\* one of its classes
InCycle == ctl.op = "hang"

\* C32: parse() ends on every finite input, with a value or an error: no
\* loop of the decoder runs forever, whatever the references of the stream
C32_ParseEnds == (ctl.op = "parse") ~> ParseEnded

\* the same but for the walk up a chain of super classes that has a cycle
C32_ParseEndsOrCycles == (ctl.op = "parse") ~> (ParseEnded \/ InCycle)


(***************************************************************************)
(* The walkers of a decoded graph: analyze_commands and object_to_dict of  *)
(* bwn_parser.py, extract_commands and to_python_structure of              *)
(* bwn_parser_v2.py.  Each is a recursive function; a call that is more    *)
(* than MaxDepth calls deep raises RecursionError, as the interpreter does *)
(* at its recursion limit.  What a walker gives is kept as the commands it *)
(* collected (class name and handle) or as the objects it converted, in    *)
(* the order of the calls.                                                 *)
(***************************************************************************)
MaxDepth == 8

WalkReturned(v) == [k |-> "returned", v |-> v]
WalkRaised(exc) == [k |-> "raise", exc |-> exc]

\* str.lower() of a text of ASCII letters
Lower(s) == [i \in 1..Len(s) |-> IF s[i] >= 65 /\ s[i] <= 90 THEN s[i] + 32 ELSE s[i]]

\* sub in s
Contains(s, sub) == Find(s, sub, 0) # -1

\* s.endswith(suf)
EndsWith(s, suf) ==
  Len(s) >= Len(suf) /\ SubSeq(s, Len(s) - Len(suf) + 1, Len(s)) = suf

K_command == <<99, 111, 109, 109, 97, 110, 100>>
K_Command == <<67, 111, 109, 109, 97, 110, 100>>

\* isinstance(v, JavaObject) and the like, for the instances of the heap
IsA(hp, v, t) == v.k = "obj" /\ hp[v.id].t = t

\* obj.field_values.values() (field_data in bwn_parser_v2.py)
FieldValues(o) == [i \in 1..Len(o.field_values) |-> o.field_values[i].value]

\* value.class_desc.name of an enum constant among the fields of a command
\* fails when the constant has no class descriptor
EnumWithoutClass(hp, o) ==
  \E i \in 1..Len(o.field_values) :
     LET value == o.field_values[i].value
     IN  IsA(hp, value, "JavaEnum") /\ ~IsClassDesc(hp, hp[value.id].class_desc)

CmdInfo(hp, o) == [class |-> hp[o.class_desc.id].name, handle |-> o.handle]

\* analyze_commands(obj, commands): no record of the objects met is kept
RECURSIVE analyze_commands(_, _, _)
RECURSIVE AnalyzeEach(_, _, _, _)
analyze_commands(hp, obj, depth) ==
  IF depth > MaxDepth THEN WalkRaised("RecursionError")
  ELSE IF IsA(hp, obj, "JavaObject")
  THEN LET o == hp[obj.id]
           class_name == hp[o.class_desc.id].name
           is_command ==
             Contains(Lower(class_name), K_command) \/ EndsWith(class_name, K_Command)
       IN  IF ~IsClassDesc(hp, o.class_desc) THEN WalkRaised("AttributeError")
           ELSE IF is_command /\ EnumWithoutClass(hp, o) THEN WalkRaised("AttributeError")
           ELSE AnalyzeEach(hp, FieldValues(o) \o o.annotations, depth + 1,
                            IF is_command THEN << CmdInfo(hp, o) >> ELSE << >>)
  ELSE IF IsA(hp, obj, "JavaArray") THEN AnalyzeEach(hp, hp[obj.id].elements, depth + 1, << >>)
  ELSE IF obj.k = "JavaReference" THEN analyze_commands(hp, obj.resolved, depth + 1)
  ELSE WalkReturned(<< >>)

AnalyzeEach(hp, values, depth, commands) ==
  IF values = << >> THEN WalkReturned(commands)
  ELSE LET r == analyze_commands(hp, Head(values), depth)
       IN  IF r.k = "raise" THEN r
           ELSE AnalyzeEach(hp, Tail(values), depth, commands \o r.v)

\* extract_commands(obj, commands, seen): seen is one set for the whole walk
RECURSIVE extract_commands(_, _, _, _)
RECURSIVE ExtractEach(_, _, _, _)
extract_commands(hp, obj, depth, st) ==
  IF depth > MaxDepth THEN WalkRaised("RecursionError")
  ELSE IF obj.k = "obj" /\ obj.id \in st.seen THEN WalkReturned(st)
  ELSE IF IsA(hp, obj, "JavaObject")
  THEN LET o == hp[obj.id]
           class_name == hp[o.class_desc.id].name
           is_command == Contains(class_name, K_Command) \/ Contains(class_name, K_command)
       IN  IF ~IsClassDesc(hp, o.class_desc) THEN WalkRaised("AttributeError")
           ELSE IF is_command /\ EnumWithoutClass(hp, o) THEN WalkRaised("AttributeError")
           ELSE ExtractEach(hp, FieldValues(o) \o o.annotations, depth + 1,
                            [seen |-> st.seen \cup {obj.id},
                             commands |-> IF is_command
                                          THEN Append(st.commands, CmdInfo(hp, o))
                                          ELSE st.commands])
  ELSE IF IsA(hp, obj, "JavaArray")
  THEN ExtractEach(hp, hp[obj.id].elements, depth + 1,
                   [seen |-> st.seen \cup {obj.id}, commands |-> st.commands])
  ELSE WalkReturned(st)

ExtractEach(hp, values, depth, st) ==
  IF values = << >> THEN WalkReturned(st)
  ELSE LET r == extract_commands(hp, Head(values), depth, st)
       IN  IF r.k = "raise" THEN r ELSE ExtractEach(hp, Tail(values), depth, r.v)

\* an object converted, or met again below itself
Converted(id) == [id |-> id, circular |-> FALSE]
Circular(id) == [id |-> id, circular |-> TRUE]

\* object_to_dict(obj, seen): seen is copied on the way down, so it holds
\* the objects above the one at hand; a JavaReference stands for what it
\* resolved to
RECURSIVE object_to_dict(_, _, _, _)
RECURSIVE DictEach(_, _, _, _, _)
object_to_dict(hp, ref, seen, depth) ==
  LET obj == IF ref.k = "JavaReference" THEN ref.resolved ELSE ref
      o == hp[obj.id]
      below == IF o.t \in {"JavaObject", "JavaArray", "JavaClassDesc"}
               THEN seen \cup {obj.id} ELSE seen
  IN  IF depth > MaxDepth THEN WalkRaised("RecursionError")
      ELSE IF obj.k # "obj" THEN WalkReturned(<< >>)
      ELSE IF obj.id \in seen
      THEN IF o.t \in {"JavaObject", "JavaArray"} /\ ~IsClassDesc(hp, o.class_desc)
           THEN WalkRaised("AttributeError")
           ELSE WalkReturned(<< Circular(obj.id) >>)
      ELSE IF o.t = "JavaClassDesc" THEN WalkReturned(<< Converted(obj.id) >>)
      ELSE IF ~IsClassDesc(hp, o.class_desc) THEN WalkRaised("AttributeError")
      ELSE IF o.t = "JavaObject"
      THEN DictEach(hp, FieldValues(o) \o o.annotations, below, depth + 1,
                    << Converted(obj.id) >>)
      ELSE IF o.t = "JavaArray"
      THEN DictEach(hp, o.elements, below, depth + 1, << Converted(obj.id) >>)
      ELSE WalkReturned(<< Converted(obj.id) >>)

DictEach(hp, values, seen, depth, done) ==
  IF values = << >> THEN WalkReturned(done)
  ELSE LET r == object_to_dict(hp, Head(values), seen, depth)
       IN  IF r.k = "raise" THEN r
           ELSE DictEach(hp, Tail(values), seen, depth, done \o r.v)

\* to_python_structure(obj, seen, depth): as object_to_dict, but a class
\* descriptor is not put in seen and the name of an array's class is taken
\* after its elements are converted
RECURSIVE to_python_structure(_, _, _, _)
RECURSIVE StructureEach(_, _, _, _, _)
to_python_structure(hp, obj, seen, depth) ==
  LET o == hp[obj.id]
      below == seen \cup {obj.id}
      elements == StructureEach(hp, o.elements, below, depth + 1, << Converted(obj.id) >>)
  IN  IF depth > MaxDepth THEN WalkRaised("RecursionError")
      ELSE IF obj.k # "obj" THEN WalkReturned(<< >>)
      ELSE IF obj.id \in seen
      THEN IF o.t = "JavaObject" /\ ~IsClassDesc(hp, o.class_desc)
           THEN WalkRaised("AttributeError")
           ELSE WalkReturned(<< Circular(obj.id) >>)
      ELSE IF o.t = "JavaObject"
      THEN IF ~IsClassDesc(hp, o.class_desc) THEN WalkRaised("AttributeError")
           ELSE StructureEach(hp, FieldValues(o) \o o.annotations, below, depth + 1,
                              << Converted(obj.id) >>)
      ELSE IF o.t = "JavaArray"
      THEN IF elements.k = "raise" \/ IsClassDesc(hp, o.class_desc) THEN elements
           ELSE WalkRaised("AttributeError")
      ELSE IF o.t = "JavaEnum" /\ ~IsClassDesc(hp, o.class_desc)
      THEN WalkRaised("AttributeError")
      ELSE WalkReturned(<< Converted(obj.id) >>)

StructureEach(hp, values, seen, depth, done) ==
  IF values = << >> THEN WalkReturned(done)
  ELSE LET r == to_python_structure(hp, Head(values), seen, depth)
       IN  IF r.k = "raise" THEN r
           ELSE StructureEach(hp, Tail(values), seen, depth, done \o r.v)

(***************************************************************************)
(* parse() on a whole buffer, then one of the walkers of the parser's file *)
(* on what parse() returned                                                *)
(***************************************************************************)
\* a command that is its own field; a command with an enum constant that
\* has no class; an object whose field is a command whose field is the
\* object
NameCommand == <<120>> \o K_command

WalkStreams ==
  { Header \o <<TC_OBJECT>> \o CD(K_Command, Plain, <<Lo>>) \o <<TC_ENDBLOCKDATA, TC_NULL>>
      \o Ref(2),
    Header \o <<TC_OBJECT>> \o CD(K_Command, Plain, <<Lo>>) \o <<TC_ENDBLOCKDATA, TC_NULL>>
      \o <<TC_ENUM, TC_NULL, TC_ENDBLOCKDATA>>,
    ObjectOf(<<Lo>>) \o <<TC_OBJECT>> \o CD(NameCommand, Plain, <<Lo>>)
      \o <<TC_ENDBLOCKDATA, TC_NULL>> \o Ref(2),
    ObjectOf(<<Lo>>) \o <<TC_OBJECT>> \o CD(NameCommand, Plain, <<Lo>>)
      \o <<TC_ENDBLOCKDATA, TC_NULL>> \o Str(<<97>>) }

NotWalked == [k |-> "walk", fn |-> "none", out |-> PyNone]

InitWalk ==
  /\ gen \in {"v1", "v2"}
  /\ data \in LiveStreams \cup WalkStreams
  /\ closed = TRUE
  /\ fed = 0
  /\ pos = 0
  /\ handles = EmptyMap
  /\ next_handle = BASE_WIRE_HANDLE
  /\ heap = << >>
  /\ ctl = Call("parse")
  /\ stack = << >>
  /\ log = << >>
  /\ graph = NoGraph
  /\ enc = NewStream
  /\ reenc = NewStream
  /\ other = NotWalked

\* result = parser.parse(), then fn(result) of the same file
Walk(fn, out) ==
  /\ other = NotWalked
  /\ ctl.op = "done"
  /\ other' = [k |-> "walk", fn |-> fn, out |-> out]
  /\ UNCHANGED << gen, data, closed, fed, pos, handles, next_handle, heap, ctl, stack, log,
                  graph, enc, reenc >>

AnalyzeCommands ==
  /\ gen = "v1"
  /\ Walk("analyze_commands", analyze_commands(heap, ctl.result, 1))

ObjectToDict ==
  /\ gen = "v1"
  /\ Walk("object_to_dict", object_to_dict(heap, ctl.result, {}, 1))

ExtractCommands ==
  /\ gen = "v2"
  /\ Walk("extract_commands",
          extract_commands(heap, ctl.result, 1, [seen |-> {}, commands |-> << >>]))

ToPythonStructure ==
  /\ gen = "v2"
  /\ Walk("to_python_structure", to_python_structure(heap, ctl.result, {}, 1))

NextWalk ==
  \/ AnalyzeCommands
  \/ ObjectToDict
  \/ ExtractCommands
  \/ ToPythonStructure
  \/ Parse
  \/ ParseReturn
  \/ ReadContent
  \/ ReadNewString
  \/ ReadNewLongString
  \/ ReadPrevObject
  \/ ReadBlockData
  \/ ReadBlockDataLong
  \/ ReadClassDesc
  \/ ReadNewClassDesc
  \/ ReadFieldDesc
  \/ ReadClassAnnotations
  \/ ClassAnnotationContent
  \/ SuperClassDesc
  \/ ReadNewProxyClassDesc
  \/ ReadNewObject
  \/ NewObjectClassDesc
  \/ ReadObjectData
  \/ FieldValueContent
  \/ ReadObjectAnnotations
  \/ ObjectAnnotationContent
  \/ ReadNewArray
  \/ NewArrayClassDesc
  \/ ReadArrayElement
  \/ ArrayElementContent
  \/ ReadNewEnum
  \/ NewEnumClassDesc
  \/ EnumConstantContent
  \/ ReadNewClass
  \/ NewClassClassDesc

SpecWalk == InitWalk /\ [][NextWalk]_vars

\* a walker was called on the graph parse() returned
Walked == other.k = "walk" /\ other.fn # "none"

\* the call ran into the interpreter's recursion limit
Overran == other.out.k = "raise" /\ other.out.exc = "RecursionError"

\* a field, an annotation or an element of an object of the graph is the
\* object itself or one above it
RefersUp == \E i \in 1..Len(other.out.v) : other.out.v[i].circular

\* C33: each walker of a decoded graph (analyze_commands, object_to_dict,
\* extract_commands, to_python_structure) comes to an end on every graph
\* parse() returns, also where an object refers to itself or to an object
\* above it: none recurses until the interpreter's limit
C33_WalkersEnd == Walked => ~Overran

\* the same of the three walkers that keep a set of the objects met
C33_SeenWalkersEnd == (Walked /\ other.fn # "analyze_commands") => ~Overran

\* to_python_structure was called on a graph with an object that refers
\* up, and returned
C33_CycleConverted ==
  Walked /\ other.fn = "to_python_structure" /\ other.out.k = "returned" /\ RefersUp


(***************************************************************************)
(* An encoder session call by call: a JavaObjectOutputStream is made and   *)
(* write_object(), write_class_desc() and BWNScriptBuilder._write_tab()    *)
(* are called on it one after the other.  A call that raises leaves what   *)
(* it did; the caller goes on with the same instance.                      *)
(***************************************************************************)
MaxWrites == 3

\* an empty list; a dict with a text and the list; a list that holds itself
\* and an int, which write_object() rejects
EncNodes ==
  << PyList(<< >>),
     PyDict(Entries(<<PyStr(<<97>>), PyNode(1)>>)),
     PyList(<<PyNode(3), PyStr(<<97>>), PyInt(1)>>) >>

\* 55296 is a surrogate, which str.encode('utf-8') refuses
EncValues ==
  { PyNone, PyStr(<<97>>), PyStr(<<55296>>), PyInt(1), PyNode(1), PyNode(2), PyNode(3) }

EncClasses == { HashMapClass, SynchronizedMapClass }

InitEnc ==
  /\ gen = "v1"
  /\ data = << >>
  /\ closed = TRUE
  /\ fed = 0
  /\ pos = 0
  /\ handles = EmptyMap
  /\ next_handle = BASE_WIRE_HANDLE
  /\ heap = << >>
  /\ ctl = [op |-> "idle"]
  /\ stack = << >>
  /\ log = << >>
  /\ graph = [root |-> PyNone, nodes |-> EncNodes]
  /\ enc = NewStream
  /\ reenc = NewStream
  /\ other = [k |-> "enc", writes |-> 0, raised |-> << >>]

\* the session as the next call finds it: the exception of the call before,
\* if any, has left the method
Resume(st) == [st EXCEPT !.err = ""]

\* one more call on the session, st what it leaves
Called(st) ==
  /\ other.writes < MaxWrites
  /\ enc' = st
  /\ other' = [other EXCEPT !.writes = @ + 1,
                            !.raised = IF st.err # "" THEN Append(@, st.err) ELSE @]
  /\ UNCHANGED << gen, data, closed, fed, pos, handles, next_handle, heap, ctl, stack, log,
                  graph, reenc >>

\* writer.write_object(value)
WriteObjectCall ==
  /\ other.k = "enc"
  /\ \E value \in EncValues : Called(write_object(graph.nodes, Resume(enc), value))

\* writer.write_class_desc(class_name, serial_uid, flags, fields, super_class)
WriteClassDescCall ==
  /\ other.k = "enc"
  /\ \E c \in EncClasses : Called(write_class_desc(Resume(enc), c))

\* builder._write_tab(writer, tab)
WriteTabCall ==
  /\ other.k = "enc"
  /\ \E tab \in Tabs : Called(_write_tab(graph.nodes, Resume(enc), tab, 1))

NextEnc ==
  \/ WriteObjectCall
  \/ WriteClassDescCall
  \/ WriteTabCall

SpecEnc == InitEnc /\ [][NextEnc]_vars

\* the handles a table holds
HandlesIn(table) == { table[key] : key \in DOMAIN table }

\* no two keys of the table have the same handle
OneKeyEach(table) ==
  \A k1, k2 \in DOMAIN table : table[k1] = table[k2] => k1 = k2

\* the reference names a handle that was taken before it was written
IssuedEarlier(st, ref) ==
  \E j \in 1..Len(st.allocs) :
     st.allocs[j].h = ref.handle /\ st.allocs[j].at <= ref.at

\* C34: in every state of an encoder session the handle counter is
\* 0x7E0000 plus the number of handles taken, the handles in the string,
\* class and object tables are pairwise distinct and below the counter, and
\* every TC_REFERENCE written carries a handle that was taken before it in
\* the same stream
C34_HandlesInOrder ==
  other.k = "enc" =>
    /\ enc.handle_counter = BASE_WIRE_HANDLE + Len(enc.allocs)
    /\ OneKeyEach(enc.string_handles)
    /\ OneKeyEach(enc.class_handles)
    /\ OneKeyEach(enc.object_handles)
    /\ HandlesIn(enc.string_handles) \cap HandlesIn(enc.class_handles) = {}
    /\ HandlesIn(enc.string_handles) \cap HandlesIn(enc.object_handles) = {}
    /\ HandlesIn(enc.class_handles) \cap HandlesIn(enc.object_handles) = {}
    /\ \A h \in HandlesIn(enc.string_handles) \cup HandlesIn(enc.class_handles)
                  \cup HandlesIn(enc.object_handles) :
         h >= BASE_WIRE_HANDLE /\ h < enc.handle_counter
    /\ \A i \in 1..Len(enc.refs) : IssuedEarlier(enc, enc.refs[i])

\* a session in which a call raised and references were written to a text,
\* to a class, to a container and to a tab's SynchronizedMap
C34_EachKindReferred ==
  /\ other.k = "enc"
  /\ other.raised # << >>
  /\ \E i \in 1..Len(enc.refs) : enc.refs[i].handle \in HandlesIn(enc.string_handles)
  /\ \E i \in 1..Len(enc.refs) : enc.refs[i].handle \in HandlesIn(enc.class_handles)
  /\ \E i \in 1..Len(enc.refs) : enc.refs[i].handle \in HandlesIn(enc.object_handles)
  /\ \E i \in 1..Len(enc.refs) : \E j \in 1..Len(enc.allocs) :
       /\ enc.allocs[j].h = enc.refs[i].handle
       /\ enc.allocs[j].key = SynchronizedMapClass.class_name


(***************************************************************************)
(* write_hashmap() on a new session for a dict of 0 to MaxEntries entries, *)
(* then a parser on the bytes written                                      *)
(***************************************************************************)
MaxEntries == 25

\* the keys of a dict: "A", "B", ...
MapKey(i) == PyStr(<<64 + i>>)

\* a dict of n entries that all have the given value
MapOf(n, value) == PyDict([i \in 1..n |-> [key |-> MapKey(i), value |-> value]])

\* the dicts given: the values are None, or one text, or the dict itself
MapGraphs ==
  { [root |-> PyNode(1), nodes |-> << MapOf(n, value) >>] :
      n \in 0..MaxEntries, value \in { PyNone, PyStr(<<118>>), PyNode(1) } }

InitMap ==
  /\ gen \in {"v1", "v2"}
  /\ data = << >>
  /\ closed = TRUE
  /\ fed = 0
  /\ pos = 0
  /\ handles = EmptyMap
  /\ next_handle = BASE_WIRE_HANDLE
  /\ heap = << >>
  /\ ctl = Call("write_hashmap")
  /\ stack = << >>
  /\ log = << >>
  /\ graph \in MapGraphs
  /\ enc = NewStream
  /\ reenc = NewStream
  /\ other = [k |-> "map"]

\* writer = JavaObjectOutputStream(); writer.write_hashmap(data)
WriteHashMapCall ==
  /\ ctl.op = "write_hashmap"
  /\ enc' = write_hashmap(graph.nodes, NewStream, graph.root.id)
  /\ ctl' = [op |-> "written"]
  /\ UNCHANGED << gen, data, closed, fed, pos, handles, next_handle, heap, stack, log,
                  graph, reenc, other >>

NextMap ==
  \/ WriteHashMapCall
  \/ GetBytes
  \/ Parse
  \/ ParseReturn
  \/ ReadContent
  \/ ReadNewString
  \/ ReadPrevObject
  \/ ReadBlockData
  \/ ReadClassDesc
  \/ ReadNewClassDesc
  \/ ReadFieldDesc
  \/ ReadClassAnnotations
  \/ SuperClassDesc
  \/ ReadNewObject
  \/ NewObjectClassDesc
  \/ ReadObjectData
  \/ ReadObjectAnnotations
  \/ ObjectAnnotationContent

SpecMap == InitMap /\ [][NextMap]_vars

\* the bytes write_hashmap() wrote were decoded
MapDecoded == other.k = "map" /\ ctl.op = "done"

\* the dict's number of entries
Given == Len(graph.nodes[graph.root.id].items)

\* the HashMap the parser returned, its threshold field and the 8 bytes of
\* the block that opens its data
MapRead == heap[ctl.result.id]
ThresholdRead ==
  MapRead.field_values[CHOOSE i \in 1..Len(MapRead.field_values) :
                          MapRead.field_values[i].name = F_threshold].value
BlockRead == MapRead.annotations[1].b
CapacityRead == S32(SubSeq(BlockRead, 1, 4))
SizeRead == S32(SubSeq(BlockRead, 5, 8))

\* how many elements the parser read in the HashMap's data, the block
\* included, before the TC_ENDBLOCKDATA that closed it
ElementsRead ==
  LET from == CHOOSE i \in 1..Len(log) : log[i].e = "annotations"
  IN  Cardinality({ i \in (from + 1)..Len(log) : log[i].e = "tc" })

\* 16, 32, 64, ...
Doublings == { 16, 32, 64, 128 }

\* C35: what write_hashmap() writes for a dict of n entries (load factor
\* 3/4) has the capacity 16 doubled the fewest times that make
\* capacity * 3/4 >= n, the threshold floor(capacity * 3/4), the size n in
\* the block, and after the block n keys each with its value and then the
\* TC_ENDBLOCKDATA, with which the stream ends
C35_MapHeader ==
  MapDecoded =>
    /\ Len(BlockRead) = 8
    /\ CapacityRead \in Doublings
    /\ CapacityRead * 3 >= Given * 4
    /\ CapacityRead > 16 => (CapacityRead \div 2) * 3 < Given * 4
    /\ ThresholdRead = PyInt((CapacityRead * 3) \div 4)
    /\ SizeRead = Given
    /\ ElementsRead = 1 + 2 * Given
    /\ pos = Len(data)
    /\ data[Len(data)] = TC_ENDBLOCKDATA

\* a dict for which the capacity is doubled twice was written and decoded
C35_DoubledTwice == MapDecoded /\ Given > 24 /\ CapacityRead = 64


(***************************************************************************)
(* The design wizard: design_generator.py, DesignGenerator.  Its calls to  *)
(* the remote model are answered by any of the Replies.  The yaml module   *)
(* is installed.                                                           *)
(***************************************************************************)
MaxWizardCalls == 4

\* what json.loads() gives: None, a list of n numbers, or a dict with the
\* keys given, its tabs and its variables
JsonNull == [k |-> "null"]
JsonArray(n) == [k |-> "array", n |-> n]
JsonObject(keys, tabs, variables) ==
  [k |-> "object", keys |-> keys, tabs |-> tabs, variables |-> variables]

\* a text that is no JSON
NotJson == [k |-> "invalid"]

GoodTab == [keys |-> {"name", "steps"}, steps |-> << [keys |-> {"command"}] >>]
UnnamedTab == [keys |-> {"steps"}, steps |-> << >>]

Designs ==
  { JsonNull, JsonArray(0), JsonArray(1),
    JsonObject({}, << >>, << >>),
    JsonObject({"project_name"}, << >>, << >>),
    JsonObject({"project_name", "tabs", "variables"}, << GoodTab >>, << [keys |-> {"name"}] >>),
    JsonObject({"tabs"}, << UnnamedTab >>, << >>) }

\* the remote call raises, or answers a text: a body, in a ``` fence or bare
NoReply == [k |-> "raise"]
Replies ==
  {NoReply} \cup { [k |-> "text", fence |-> f, body |-> b] :
                     f \in BOOLEAN, b \in Designs \cup {NotJson} }
ManualReplies ==
  {NoReply} \cup { [k |-> "text", fence |-> f, body |-> b] :
                     f \in BOOLEAN, b \in {"", "# manual"} }

\* bool(v) of Python
Truthy(v) ==
  CASE v.k = "null" -> FALSE
    [] v.k = "array" -> v.n > 0
    [] v.k = "object" -> v.keys # {}

\* _call_api(): RuntimeError without a client, else the text answered (the
\* client's own exceptions are modelled by the same raise)
_call_api(reply) ==
  IF reply.k = "raise" THEN [ok |-> FALSE, exc |-> "RuntimeError: api"]
  ELSE [ok |-> TRUE, v |-> reply]

\* _extract_json(): json.loads() of what is in the fence, or else of the
\* text from its first "{" to its last "}", which is empty when it has none
_extract_json(text) ==
  IF text.fence
  THEN IF text.body.k = "invalid" THEN [ok |-> FALSE] ELSE [ok |-> TRUE, v |-> text.body]
  ELSE IF text.body.k = "object" THEN [ok |-> TRUE, v |-> text.body] ELSE [ok |-> FALSE]

\* DesignGenerator.__init__()
NewGenerator ==
  [requirement |-> "", basic_design |-> JsonNull, detailed_design |-> JsonNull, manual |-> ""]

\* what a call gives: the generator after it and the exception raised, if any
Returns(w, ret) == [w |-> w, raised |-> "", ret |-> ret]
Raises(w, exc) == [w |-> w, raised |-> exc, ret |-> JsonNull]

generate_basic_design(w, requirement, reply) ==
  LET w1 == [w EXCEPT !.requirement = requirement]
      response == _call_api(reply)
      json == _extract_json(response.v)
  IN  IF ~response.ok THEN Raises(w1, response.exc)
      ELSE IF ~json.ok THEN Raises(w1, "JSONDecodeError")
      ELSE Returns([w1 EXCEPT !.basic_design = json.v], json.v)

\* the feedback only goes into the message sent
generate_detailed_design(w, reply) ==
  LET response == _call_api(reply)
      json == _extract_json(response.v)
  IN  IF ~Truthy(w.basic_design) THEN Raises(w, "RuntimeError: basic design first")
      ELSE IF ~response.ok THEN Raises(w, response.exc)
      ELSE IF ~json.ok THEN Raises(w, "JSONDecodeError")
      ELSE Returns([w EXCEPT !.detailed_design = json.v], json.v)

generate_manual(w, reply) ==
  LET response == _call_api(reply)
  IN  IF ~Truthy(w.detailed_design) THEN Raises(w, "RuntimeError: detailed design first")
      ELSE IF ~response.ok THEN Raises(w, response.exc)
      ELSE Returns([w EXCEPT !.manual = response.v.body], JsonNull)

\* each of the entries has the key
AllHave(entries, key) == \A i \in 1..Len(entries) : key \in entries[i].keys

\* generate_yaml_script(): the steps of the tabs, one comment before each
\* tab's; what is returned is modelled by the number of steps
generate_yaml_script(w) ==
  LET dd == w.detailed_design
      tabs == IF "tabs" \in dd.keys THEN dd.tabs ELSE << >>
      variables == IF "variables" \in dd.keys THEN dd.variables ELSE << >>
      StepsOf(tab) == IF "steps" \in tab.keys THEN tab.steps ELSE << >>
      Sum[i \in 0..Len(tabs)] ==
        IF i = 0 THEN 0 ELSE Sum[i - 1] + 1 + Len(StepsOf(tabs[i]))
  IN  IF ~Truthy(dd) THEN Raises(w, "RuntimeError: detailed design first")
      ELSE IF dd.k # "object" THEN Raises(w, "AttributeError")
      ELSE IF \E i \in 1..Len(tabs) :
                "name" \notin tabs[i].keys \/ ~AllHave(StepsOf(tabs[i]), "command")
      THEN Raises(w, "KeyError")
      ELSE IF ~AllHave(variables, "name") THEN Raises(w, "KeyError")
      ELSE Returns(w, JsonArray(Sum[Len(tabs)]))

\* the generator alone, with the calls made on it, those that returned,
\* and for the last call what it was given and what it did
InitWizard ==
  /\ gen = "v1"
  /\ data = << >>
  /\ closed = TRUE
  /\ fed = 0
  /\ pos = 0
  /\ handles = EmptyMap
  /\ next_handle = BASE_WIRE_HANDLE
  /\ heap = << >>
  /\ ctl = [op |-> "idle"]
  /\ stack = << >>
  /\ log = << >>
  /\ graph = [root |-> PyNone, nodes |-> << >>]
  /\ enc = NewStream
  /\ reenc = NewStream
  /\ other = [k |-> "wizard", generator |-> NewGenerator, calls |-> << >>, returned |-> {},
              last |-> [fn |-> "none", reply |-> NoReply, raised |-> "", changed |-> FALSE,
                        had |-> {}]]

WizardCalled(fn, reply, r) ==
  /\ Len(other.calls) < MaxWizardCalls
  /\ other' = [other EXCEPT
                 !.generator = r.w,
                 !.calls = Append(@, fn),
                 !.returned = IF r.raised = "" THEN @ \cup {fn} ELSE @,
                 !.last = [fn |-> fn, reply |-> reply, raised |-> r.raised,
                           changed |-> r.w # other.generator, had |-> other.returned]]
  /\ UNCHANGED << gen, data, closed, fed, pos, handles, next_handle, heap, ctl, stack, log,
                  graph, enc, reenc >>

GenerateBasicDesign ==
  /\ other.k = "wizard"
  /\ \E reply \in Replies :
       WizardCalled("generate_basic_design", reply,
                    generate_basic_design(other.generator, "requirement", reply))

GenerateDetailedDesign ==
  /\ other.k = "wizard"
  /\ \E reply \in Replies :
       WizardCalled("generate_detailed_design", reply,
                    generate_detailed_design(other.generator, reply))

GenerateManual ==
  /\ other.k = "wizard"
  /\ \E reply \in ManualReplies :
       WizardCalled("generate_manual", reply, generate_manual(other.generator, reply))

\* no remote call is made
GenerateYamlScript ==
  /\ other.k = "wizard"
  /\ WizardCalled("generate_yaml_script", NoReply, generate_yaml_script(other.generator))

NextWizard ==
  \/ GenerateBasicDesign
  \/ GenerateDetailedDesign
  \/ GenerateManual
  \/ GenerateYamlScript

SpecWizard == InitWizard /\ [][NextWizard]_vars

IsWizard == other.k = "wizard"

\* the last call raised and left the generator as it was
Refused == other.last.raised # "" /\ ~other.last.changed

\* a call out of order is refused
PhaseGuards ==
  /\ (/\ other.last.fn = "generate_detailed_design"
      /\ "generate_basic_design" \notin other.last.had) => Refused
  /\ (/\ other.last.fn \in {"generate_manual", "generate_yaml_script"}
      /\ "generate_detailed_design" \notin other.last.had) => Refused

PhaseOrder ==
  << "generate_basic_design", "generate_detailed_design", "generate_manual",
     "generate_yaml_script" >>

\* a dict whose tabs, steps and variables have the keys that are read
WellFormed(v) ==
  /\ v.k = "object"
  /\ \A i \in 1..Len(v.tabs) :
       "name" \in v.tabs[i].keys /\ AllHave(v.tabs[i].steps, "command")
  /\ AllHave(v.variables, "name")

\* the calls so far are the first of basic, detailed, manual, yaml, in this
\* order; each before the last returned and was answered a well formed
\* design; the last is answered one too (a text, for the manual)
InOrder ==
  LET n == Len(other.calls)
      l == other.last
  IN  /\ n > 0
      /\ other.calls = SubSeq(PhaseOrder, 1, n)
      /\ \A i \in 1..(n - 1) : other.calls[i] \in l.had
      /\ n >= 2 => WellFormed(other.generator.basic_design)
      /\ n >= 3 => WellFormed(other.generator.detailed_design)
      /\ n <= 3 => l.reply.k = "text"
      /\ n <= 2 => WellFormed(l.reply.body)

\* C40: over any sequence of calls, generate_detailed_design raises and
\* changes nothing unless generate_basic_design has returned before, and
\* generate_manual and generate_yaml_script raise and change nothing unless
\* generate_detailed_design has returned before; and called in the order
\* basic, detailed, manual, yaml, each call returns
C40_PhaseOrder ==
  IsWizard => (PhaseGuards /\ (InOrder => other.last.raised = ""))

\* the first part, as it stands
C40_PhaseGuards == IsWizard => PhaseGuards

\* the second part, where no design that was answered is an empty dict
C40_OrderOfTruthy ==
  (/\ IsWizard
   /\ InOrder
   /\ Len(other.calls) >= 2 => Truthy(other.generator.basic_design)
   /\ Len(other.calls) >= 3 => Truthy(other.generator.detailed_design))
    => other.last.raised = ""

\* the four calls were made in order and each returned
C40_AllFourReturned ==
  IsWizard /\ InOrder /\ Len(other.calls) = 4 /\ other.last.raised = ""

\* a call out of order was refused
C40_RefusedOutOfOrder ==
  /\ IsWizard
  /\ other.last.fn = "generate_detailed_design"
  /\ "generate_basic_design" \notin other.last.had
  /\ Refused

=============================================================================
